---- MODULE Spec2Model ----
(***************************************************************************)
(* Model of the retrieval-and-synthesis pipeline of echother-back:         *)
(*   services/intelligent_ticket_generator.py (orchestrator, sanitizer,    *)
(*   parser), services/rag_service.py (ranking) and                        *)
(*   services/cocoindex_service.py (indexing).                             *)
(*                                                                         *)
(* Texts are sequences of one-character strings, so that the regular       *)
(* expressions of the source act on characters exactly as re.sub does.     *)
(***************************************************************************)
EXTENDS Integers, Sequences, FiniteSets, TLC

----------------------------------------------------------------------------
\* Characters and basic text operations (Python str / re semantics)

\* The backtick character. The module language has no string holding it, so the
\* model writes it as the tilde, which occurs in no other text of the model.
Backtick == "~"

\* str.strip() and the regex class \s, on the characters the model uses
IsSpace(c) == c \in {" ", "\n", "\t", "\r"}

UpperCase ==
    <<"A", "B", "C", "D", "E", "F", "G", "H", "I", "J", "K", "L", "M",
      "N", "O", "P", "Q", "R", "S", "T", "U", "V", "W", "X", "Y", "Z">>

LowerCase ==
    <<"a", "b", "c", "d", "e", "f", "g", "h", "i", "j", "k", "l", "m",
      "n", "o", "p", "q", "r", "s", "t", "u", "v", "w", "x", "y", "z">>

\* str.lower() of one character; also the case folding of the (?i) flag
Lower(c) ==
    IF \E k \in 1..Len(UpperCase) : UpperCase[k] = c
    THEN LowerCase[CHOOSE k \in 1..Len(UpperCase) : UpperCase[k] = c]
    ELSE c

\* least element of a non-empty set of integers
Least(S) == CHOOSE k \in S : \A j \in S : k <= j

\* greatest element of a non-empty set of integers
Greatest(S) == CHOOSE k \in S : \A j \in S : k >= j

\* the literal p occurs in s at index i
MatchAt(s, i, p) ==
    /\ i >= 1
    /\ i + Len(p) - 1 <= Len(s)
    /\ \A k \in 1..Len(p) : s[i + k - 1] = p[k]

\* the literal p occurs in s at index i, ignoring case
MatchAtIgnoreCase(s, i, p) ==
    /\ i >= 1
    /\ i + Len(p) - 1 <= Len(s)
    /\ \A k \in 1..Len(p) : Lower(s[i + k - 1]) = Lower(p[k])

\* index of the first occurrence of p in s at or after i, 0 when there is none
FindFrom(s, i, p) ==
    LET hits == {k \in i..(Len(s) - Len(p) + 1) : MatchAt(s, k, p)}
    IN  IF hits = {} THEN 0 ELSE Least(hits)

\* str.startswith
StartsWith(s, p) == MatchAt(s, 1, p)

\* s[n:] for n >= 0
DropFirst(s, n) == IF n >= Len(s) THEN <<>> ELSE SubSeq(s, n + 1, Len(s))

\* index of the first character at or after i that is not white space,
\* Len(s) + 1 when there is none
SkipSpace(s, i) ==
    LET stops == {k \in i..Len(s) : ~IsSpace(s[k])}
    IN  IF stops = {} THEN Len(s) + 1 ELSE Least(stops)

\* str.strip()
Strip(s) ==
    LET solid == {k \in 1..Len(s) : ~IsSpace(s[k])}
    IN  IF solid = {} THEN <<>> ELSE SubSeq(s, Least(solid), Greatest(solid))

\* str.split('\n')
RECURSIVE SplitLines(_)
SplitLines(s) ==
    LET nl == FindFrom(s, 1, <<"\n">>)
    IN  IF nl = 0 THEN <<s>>
        ELSE <<SubSeq(s, 1, nl - 1)>> \o SplitLines(DropFirst(s, nl))

----------------------------------------------------------------------------
\* Literals of the sanitizer, the parser and the orchestrator

LabelAssignedTo ==
    <<"*", "*", "A", "s", "s", "i", "g", "n", "e", "d", " ", "T", "o", ":",
      "*", "*">>

LabelDueDate ==
    <<"*", "*", "D", "u", "e", " ", "D", "a", "t", "e", ":", "*", "*">>

LabelTags ==
    <<"*", "*", "T", "a", "g", "s", ":", "*", "*">>

LabelTicketID ==
    <<"*", "*", "T", "i", "c", "k", "e", "t", " ", "I", "D", ":", "*", "*">>

LabelProject ==
    <<"*", "*", "P", "r", "o", "j", "e", "c", "t", ":", "*", "*">>

LabelComponent ==
    <<"*", "*", "C", "o", "m", "p", "o", "n", "e", "n", "t", ":", "*", "*">>

LabelPriority ==
    <<"*", "*", "P", "r", "i", "o", "r", "i", "t", "y", ":", "*", "*">>

LabelComplexity ==
    <<"*", "*", "C", "o", "m", "p", "l", "e", "x", "i", "t", "y", ":", "*",
      "*">>

LabelStatus ==
    <<"*", "*", "S", "t", "a", "t", "u", "s", ":", "*", "*">>

ExampleHeading ==
    <<"E", "x", "a", "m", "p", "l", "e", " ", "C", "o", "d", "e", " ", "S",
      "n", "i", "p", "p", "e", "t">>

AcceptanceHeading ==
    <<"#", "#", " ", "A", "c", "c", "e", "p", "t", "a", "n", "c", "e", " ",
      "C", "r", "i", "t", "e", "r", "i", "a">>

FilesHeading ==
    <<"#", "#", " ", "F", "i", "l", "e", "s", " ", "t", "o", " ", "M", "o",
      "d", "i", "f", "y">>

DefaultTitle ==
    <<"G", "e", "n", "e", "r", "a", "t", "e", "d", " ", "T", "i", "c", "k",
      "e", "t">>

ErrorTitle ==
    <<"E", "r", "r", "o", "r", " ", "g", "e", "n", "e", "r", "a", "t", "i",
      "n", "g", " ", "t", "i", "c", "k", "e", "t">>

ErrorPrefix ==
    <<"F", "a", "i", "l", "e", "d", " ", "t", "o", " ", "g", "e", "n", "e",
      "r", "a", "t", "e", " ", "t", "i", "c", "k", "e", "t", ":", " ">>

IndexErrorPrefix ==
    <<"F", "a", "i", "l", "e", "d", " ", "t", "o", " ", "i", "n", "d", "e",
      "x", " ", "r", "e", "p", "o", "s", "i", "t", "o", "r", "y", ":", " ">>

----------------------------------------------------------------------------
\* IntelligentTicketGenerator._sanitize_ticket

\* disallowed_patterns, in list order: nine bold-label patterns
\* r"\*\*<Label>:\*\*.*\n?" and the example-section pattern
disallowed_patterns ==
    << [kind |-> "label", lit |-> LabelAssignedTo],
       [kind |-> "label", lit |-> LabelDueDate],
       [kind |-> "label", lit |-> LabelTags],
       [kind |-> "label", lit |-> LabelTicketID],
       [kind |-> "label", lit |-> LabelProject],
       [kind |-> "label", lit |-> LabelComponent],
       [kind |-> "label", lit |-> LabelPriority],
       [kind |-> "label", lit |-> LabelComplexity],
       [kind |-> "label", lit |-> LabelStatus],
       [kind |-> "example", lit |-> ExampleHeading] >>

\* end of a match of r"<lit>.*\n?" that starts at i: '.' stops before "\n",
\* and the "\n" is consumed when there is one. Returns the index after the match.
LabelMatchEnd(s, i, lit) ==
    LET nl == FindFrom(s, i + Len(lit), <<"\n">>)
    IN  IF nl = 0 THEN Len(s) + 1 ELSE nl + 1

\* re.sub(r"<lit>.*\n?", "", s) on the text from index i on: copy up to the
\* next match, drop the match, go on after it
RECURSIVE SubLabel(_, _, _)
SubLabel(s, i, lit) ==
    LET m == FindFrom(s, i, lit)
    IN  IF m = 0 THEN DropFirst(s, i - 1)
        ELSE SubSeq(s, i, m - 1) \o SubLabel(s, LabelMatchEnd(s, m, lit), lit)

\* index after r"(?si)##\s*Example Code Snippet" matched at i, 0 when no match
ExampleHeadEnd(s, i) ==
    IF ~MatchAt(s, i, <<"#", "#">>) THEN 0
    ELSE LET j == SkipSpace(s, i + 2)
         IN  IF MatchAtIgnoreCase(s, j, ExampleHeading)
             THEN j + Len(ExampleHeading) ELSE 0

\* end of the lazy tail r".*?(?:\n##|\Z)" from index j (DOTALL): through the
\* first "\n##", else to the end of the text. Returns the index after the match.
ExampleTailEnd(s, j) ==
    LET h == FindFrom(s, j, <<"\n", "#", "#">>)
    IN  IF h = 0 THEN Len(s) + 1 ELSE h + 3

\* re.sub(r"(?si)##\s*Example Code Snippet.*?(?:\n##|\Z)", "", s) from index i on
RECURSIVE SubExample(_, _)
SubExample(s, i) ==
    LET starts == {k \in i..Len(s) : ExampleHeadEnd(s, k) # 0}
    IN  IF starts = {} THEN DropFirst(s, i - 1)
        ELSE LET m == Least(starts)
             IN  SubSeq(s, i, m - 1)
                     \o SubExample(s, ExampleTailEnd(s, ExampleHeadEnd(s, m)))

Fence == <<Backtick, Backtick, Backtick>>

\* the fenced-block substitution that stops after the first block (count=1)
SubFenceFirstOnly(s, i) ==
    LET starts == {k \in i..Len(s) :
                      MatchAt(s, k, Fence) /\ FindFrom(s, k + 3, Fence) # 0}
    IN  IF starts = {} THEN DropFirst(s, i - 1)
        ELSE LET m == Least(starts)
             IN  SubSeq(s, i, m - 1) \o DropFirst(s, FindFrom(s, m + 3, Fence) + 2)

\* re.sub of the fenced-block pattern (three backticks, lazy [\s\S]*, three
\* backticks) by "", on the text from index i on
RECURSIVE SubFence(_, _)
SubFence(s, i) ==
    LET starts == {k \in i..Len(s) :
                      MatchAt(s, k, Fence) /\ FindFrom(s, k + 3, Fence) # 0}
    IN  IF starts = {} THEN DropFirst(s, i - 1)
        ELSE LET m == Least(starts)
             IN  SubSeq(s, i, m - 1) \o SubFence(s, FindFrom(s, m + 3, Fence) + 3)

\* index after the run of "\n" that starts at i
NewlineRunEnd(s, i) ==
    LET stops == {k \in i..Len(s) : s[k] # "\n"}
    IN  IF stops = {} THEN Len(s) + 1 ELSE Least(stops)

\* re.sub(r"\n{3,}", "\n\n", s) on the text from index i on
RECURSIVE SubNewlines(_, _)
SubNewlines(s, i) ==
    LET m == FindFrom(s, i, <<"\n", "\n", "\n">>)
    IN  IF m = 0 THEN DropFirst(s, i - 1)
        ELSE SubSeq(s, i, m - 1) \o <<"\n", "\n">>
                 \o SubNewlines(s, NewlineRunEnd(s, m))

\* one pass of the loop "for pat in disallowed_patterns: cleaned = re.sub(...)"
ApplyPattern(s, pat) ==
    IF pat.kind = "label" THEN SubLabel(s, 1, pat.lit) ELSE SubExample(s, 1)

\* the loop over disallowed_patterns, from pattern k on
RECURSIVE ApplyPatterns(_, _)
ApplyPatterns(s, k) ==
    IF k > Len(disallowed_patterns) THEN s
    ELSE ApplyPatterns(ApplyPattern(s, disallowed_patterns[k]), k + 1)

_sanitize_ticket(md) ==
    LET cleaned1 == ApplyPatterns(md, 1)
        cleaned2 == SubFence(cleaned1, 1)
    IN  Strip(SubNewlines(cleaned2, 1))

----------------------------------------------------------------------------
\* IntelligentTicketGenerator._parse_generated_ticket

\* the title loop: the first line that starts with "# " gives line[2:].strip()
RECURSIVE ExtractTitle(_, _)
ExtractTitle(lines, k) ==
    IF k > Len(lines) THEN DefaultTitle
    ELSE IF StartsWith(lines[k], <<"#", " ">>) THEN Strip(DropFirst(lines[k], 2))
    ELSE ExtractTitle(lines, k + 1)

CheckboxMarker == <<"-", " ", "[", " ", "]">>

SectionMarker == <<"#", "#", " ">>

\* the acceptance-criteria loop without the test "if criteria:" of line 206
RECURSIVE ExtractCriteriaKeepsEmpty(_, _, _, _)
ExtractCriteriaKeepsEmpty(lines, k, in_criteria_section, acceptance_criteria) ==
    IF k > Len(lines) THEN acceptance_criteria
    ELSE IF Strip(lines[k]) = AcceptanceHeading
         THEN ExtractCriteriaKeepsEmpty(lines, k + 1, TRUE, acceptance_criteria)
    ELSE IF StartsWith(lines[k], SectionMarker) /\ in_criteria_section
         THEN acceptance_criteria
    ELSE IF in_criteria_section /\ StartsWith(Strip(lines[k]), CheckboxMarker)
         THEN ExtractCriteriaKeepsEmpty(lines, k + 1, in_criteria_section,
                  Append(acceptance_criteria, Strip(DropFirst(Strip(lines[k]), 5))))
    ELSE ExtractCriteriaKeepsEmpty(lines, k + 1, in_criteria_section,
                                   acceptance_criteria)

\* the acceptance-criteria loop from line k on, with its flag and its list
RECURSIVE ExtractCriteria(_, _, _, _)
ExtractCriteria(lines, k, in_criteria_section, acceptance_criteria) ==
    IF k > Len(lines) THEN acceptance_criteria
    ELSE IF Strip(lines[k]) = AcceptanceHeading
         THEN ExtractCriteria(lines, k + 1, TRUE, acceptance_criteria)
    ELSE IF StartsWith(lines[k], SectionMarker) /\ in_criteria_section
         THEN acceptance_criteria
    ELSE IF in_criteria_section /\ StartsWith(Strip(lines[k]), CheckboxMarker)
         THEN LET criteria == Strip(DropFirst(Strip(lines[k]), 5))
              IN  ExtractCriteria(lines, k + 1, in_criteria_section,
                      IF criteria # <<>> THEN Append(acceptance_criteria, criteria)
                      ELSE acceptance_criteria)
    ELSE ExtractCriteria(lines, k + 1, in_criteria_section, acceptance_criteria)

\* index of the backtick that closes a token opened at i: the pattern
\* backtick, ([^backtick]+), backtick matches at i; 0 when it does not
TokenClose(s, i) ==
    LET e == FindFrom(s, i + 1, <<Backtick>>)
    IN  IF i <= Len(s) /\ s[i] = Backtick /\ e > i + 1 THEN e ELSE 0

\* re.findall of that pattern on the text from index i on
RECURSIVE FindAllTokens(_, _)
FindAllTokens(s, i) ==
    LET starts == {k \in i..Len(s) : TokenClose(s, k) # 0}
    IN  IF starts = {} THEN <<>>
        ELSE LET m == Least(starts)
             IN  <<SubSeq(s, m + 1, TokenClose(s, m) - 1)>>
                     \o FindAllTokens(s, TokenClose(s, m) + 1)

\* the append of the last token of the line, matches[-1]
AppendLastMatch(acc, matches) ==
    IF matches # <<>> THEN [acc EXCEPT !.files = Append(@, matches[Len(matches)])]
    ELSE acc

\* the append without the "if matches" guard: matches[0] raises on an empty list
AppendFirstMatchUnguarded(acc, matches) ==
    IF matches = <<>> THEN [acc EXCEPT !.raised = TRUE]
    ELSE [acc EXCEPT !.files = Append(@, matches[1])]

\* the statement "if matches: files_to_modify.append(matches[0])" on a result
\* [raised, files]; matches[0] of an empty list raises IndexError
AppendFirstMatch(acc, matches) ==
    IF matches # <<>> THEN [acc EXCEPT !.files = Append(@, matches[1])]
    ELSE acc

\* the files loop from line k on; a raise ends it
RECURSIVE ExtractFiles(_, _, _, _)
ExtractFiles(lines, k, in_files_section, acc) ==
    IF k > Len(lines) \/ acc.raised THEN acc
    ELSE IF Strip(lines[k]) = FilesHeading
         THEN ExtractFiles(lines, k + 1, TRUE, acc)
    ELSE IF StartsWith(lines[k], SectionMarker) /\ in_files_section
         THEN acc
    ELSE IF in_files_section /\ FindFrom(lines[k], 1, <<Backtick>>) # 0
         THEN ExtractFiles(lines, k + 1, in_files_section,
                  AppendFirstMatch(acc, FindAllTokens(lines[k], 1)))
    ELSE ExtractFiles(lines, k + 1, in_files_section, acc)

TicketFields ==
    {"title", "description", "acceptance_criteria", "files_to_modify", "raw_markdown"}

\* the result is the ticket dictionary, or [exception |-> ...] when the body raises
_parse_generated_ticket(markdown_content) ==
    LET lines == SplitLines(markdown_content)
        files == ExtractFiles(lines, 1, FALSE, [raised |-> FALSE, files |-> <<>>])
    IN  IF files.raised THEN [exception |-> "IndexError"]
        ELSE [title |-> ExtractTitle(lines, 1),
              description |-> markdown_content,
              acceptance_criteria |-> ExtractCriteria(lines, 1, FALSE, <<>>),
              files_to_modify |-> files.files,
              raw_markdown |-> markdown_content]

----------------------------------------------------------------------------
\* RAGService.analyze_user_request: intent, complexity and scope.
\* (keywords and technology_hints only feed the prompt text.)

FeatureWords ==
    << <<"a", "d", "d">>,
       <<"c", "r", "e", "a", "t", "e">>,
       <<"i", "m", "p", "l", "e", "m", "e", "n", "t">>,
       <<"b", "u", "i", "l", "d">> >>

BugWords ==
    << <<"f", "i", "x">>,
       <<"b", "u", "g">>,
       <<"e", "r", "r", "o", "r">>,
       <<"i", "s", "s", "u", "e">> >>

RefactorWords ==
    << <<"r", "e", "f", "a", "c", "t", "o", "r">>,
       <<"i", "m", "p", "r", "o", "v", "e">>,
       <<"o", "p", "t", "i", "m", "i", "z", "e">> >>

SecurityWords ==
    << <<"s", "e", "c", "u", "r", "i", "t", "y">>,
       <<"v", "u", "l", "n", "e", "r", "a", "b", "i", "l", "i", "t", "y">>,
       <<"a", "u", "t", "h">> >>

PerformanceWords ==
    << <<"p", "e", "r", "f", "o", "r", "m", "a", "n", "c", "e">>,
       <<"s", "p", "e", "e", "d">>,
       <<"e", "f", "f", "i", "c", "i", "e", "n", "c", "y">> >>

ComponentWords ==
    << <<"c", "o", "m", "p", "o", "n", "e", "n", "t">>,
       <<"f", "u", "n", "c", "t", "i", "o", "n">>,
       <<"c", "l", "a", "s", "s">> >>

ModuleWords ==
    << <<"m", "o", "d", "u", "l", "e">>,
       <<"s", "e", "r", "v", "i", "c", "e">>,
       <<"a", "p", "i">> >>

SystemWords ==
    << <<"s", "y", "s", "t", "e", "m">>,
       <<"a", "r", "c", "h", "i", "t", "e", "c", "t", "u", "r", "e">>,
       <<"d", "a", "t", "a", "b", "a", "s", "e">> >>

\* str.lower()
LowerText(s) == [k \in 1..Len(s) |-> Lower(s[k])]

\* "t in text"
Contains(text, t) == FindFrom(text, 1, t) # 0

\* any(word in request_lower for word in words)
AnyWordIn(words, request_lower) ==
    \E k \in 1..Len(words) : Contains(request_lower, words[k])

\* the classification with the refactoring bucket tested before the bug bucket
_classify_intent_refactor_first(request) ==
    LET request_lower == LowerText(request)
    IN  IF AnyWordIn(FeatureWords, request_lower) THEN "feature_implementation"
        ELSE IF AnyWordIn(RefactorWords, request_lower) THEN "refactoring"
        ELSE IF AnyWordIn(BugWords, request_lower) THEN "bug_fix"
        ELSE IF AnyWordIn(SecurityWords, request_lower) THEN "security_update"
        ELSE IF AnyWordIn(PerformanceWords, request_lower)
             THEN "performance_optimization"
        ELSE "general_implementation"

\* lines 50-65
_classify_intent(request) ==
    LET request_lower == LowerText(request)
    IN  IF AnyWordIn(FeatureWords, request_lower) THEN "feature_implementation"
        ELSE IF AnyWordIn(BugWords, request_lower) THEN "bug_fix"
        ELSE IF AnyWordIn(RefactorWords, request_lower) THEN "refactoring"
        ELSE IF AnyWordIn(SecurityWords, request_lower) THEN "security_update"
        ELSE IF AnyWordIn(PerformanceWords, request_lower)
             THEN "performance_optimization"
        ELSE "general_implementation"

\* len(request.split()): the number of maximal runs of non-space characters
WordCount(request) ==
    Cardinality({k \in 1..Len(request) :
        ~IsSpace(request[k]) /\ (k = 1 \/ IsSpace(request[k - 1]))})

SimpleWords == 10

MediumWords == 30

_estimate_complexity(request) ==
    IF WordCount(request) < SimpleWords THEN "simple"
    ELSE IF WordCount(request) < MediumWords THEN "medium"
    ELSE "complex"

_determine_scope(request) ==
    LET request_lower == LowerText(request)
    IN  IF AnyWordIn(ComponentWords, request_lower) THEN "component"
        ELSE IF AnyWordIn(ModuleWords, request_lower) THEN "module"
        ELSE IF AnyWordIn(SystemWords, request_lower) THEN "system"
        ELSE "component"

analyze_user_request(user_request) ==
    [intent |-> _classify_intent(user_request),
     complexity |-> _estimate_complexity(user_request),
     scope |-> _determine_scope(user_request)]

----------------------------------------------------------------------------
\* RAGService.search_relevant_code, lexical mode. self.embedding_model is set
\* to None by the constructor and assigned nowhere else, so every call takes
\* the else branch.
\*
\* A chunk record is [filename, code, pad, language]: its code is the text
\* `code` followed by `pad` filler characters that belong to no query term (so
\* that texts of 10000 characters and more are in reach). Scores are exact
\* fractions [num, den] with den > 0.

OverlapWeight == 7     \* 0.7, in tenths

LengthWeight == 3      \* 0.3, in tenths

LengthCap == 10000     \* len(text) / 10000.0

MinScore == 3          \* the threshold 0.3, in tenths

\* a > b and a <= b on fractions; the scores of one call share their denominator
Greater(a, b) ==
    IF a.den = b.den THEN a.num > b.num ELSE a.num * b.den > b.num * a.den

AtMost(a, b) == ~Greater(a, b)

\* [a-z0-9_]
IsTermChar(c) ==
    \/ \E k \in 1..Len(LowerCase) : LowerCase[k] = c
    \/ c \in {"0", "1", "2", "3", "4", "5", "6", "7", "8", "9", "_"}

\* set(re.findall(r"[a-z0-9_]+", q)): the maximal runs of term characters
QueryTerms(q) ==
    {SubSeq(q, i, j) : <<i, j>> \in
        {r \in (1..Len(q)) \X (1..Len(q)) :
            /\ r[1] <= r[2]
            /\ \A k \in r[1]..r[2] : IsTermChar(q[k])
            /\ (r[1] = 1 \/ ~IsTermChar(q[r[1] - 1]))
            /\ (r[2] = Len(q) \/ ~IsTermChar(q[r[2] + 1]))}}

\* f"{filename}\n{code}".lower(), without the filler
ChunkText(chunk) == LowerText(chunk.filename \o <<"\n">> \o chunk.code)

\* len(text)
ChunkLength(chunk) == Len(chunk.filename) + 1 + Len(chunk.code) + chunk.pad

Smaller(a, b) == IF a <= b THEN a ELSE b

\* the lexical score with every occurrence of a term counted
LexicalScoreCountsOccurrences(q_terms, chunk) ==
    LET text == ChunkText(chunk)
        matches == Cardinality({<<t, i>> \in q_terms \X (1..Len(text)) :
                                   MatchAt(text, i, t)})
        n == IF Cardinality(q_terms) = 0 THEN 1 ELSE Cardinality(q_terms)
    IN  [num |-> OverlapWeight * matches * LengthCap
                    + LengthWeight * n * Smaller(ChunkLength(chunk), LengthCap),
         den |-> 10 * n * LengthCap]

\* lines 141-144: the lexical score of one chunk
LexicalScore(q_terms, chunk) ==
    LET text == ChunkText(chunk)
        matches == Cardinality({t \in q_terms : Contains(text, t)})
        n == IF Cardinality(q_terms) = 0 THEN 1 ELSE Cardinality(q_terms)
    IN  [num |-> OverlapWeight * matches * LengthCap
                    + LengthWeight * n * Smaller(ChunkLength(chunk), LengthCap),
         den |-> 10 * n * LengthCap]

\* the list of (score, chunk) pairs built by the loop of lines 140-145
Similarities(query, code_embeddings) ==
    LET q_terms == QueryTerms(LowerText(query))
    IN  [k \in 1..Len(code_embeddings) |->
            [score |-> LexicalScore(q_terms, code_embeddings[k]),
             chunk |-> code_embeddings[k]]]

\* insertion of x behind every entry whose score is not smaller
InsertDesc(sorted, x) ==
    LET before == {k \in 1..Len(sorted) : AtMost(x.score, sorted[k].score)}
        cut == IF before = {} THEN 0 ELSE Greatest(before)
    IN  SubSeq(sorted, 1, cut) \o <<x>> \o DropFirst(sorted, cut)

\* list.sort(key=lambda x: x[0], reverse=True): stable, descending
RECURSIVE SortDesc(_)
SortDesc(list) ==
    IF list = <<>> THEN <<>>
    ELSE InsertDesc(SortDesc(SubSeq(list, 1, Len(list) - 1)), list[Len(list)])

\* list[:k] for k >= 0
Prefix(list, k) == SubSeq(list, 1, Smaller(k, Len(list)))

\* the threshold test with >= in place of >: a score of exactly 0.3 passes
PassesThresholdInclusive(score) ==
    ~Greater([num |-> MinScore, den |-> 10], score)

\* the threshold test against 0.25
PassesThresholdQuarter(score) == Greater(score, [num |-> 1, den |-> 4])

\* "if score > 0.3"
PassesThreshold(score) == Greater(score, [num |-> MinScore, den |-> 10])

\* CodeChunk(...)
CodeChunk(entry) ==
    [filename |-> entry.chunk.filename,
     code |-> entry.chunk.code,
     pad |-> entry.chunk.pad,
     language |-> entry.chunk.language,
     score |-> entry.score]

\* lines 152-162: the entries that pass the threshold, as CodeChunk objects
RECURSIVE ToCodeChunks(_)
ToCodeChunks(top_results) ==
    IF top_results = <<>> THEN <<>>
    ELSE LET rest == ToCodeChunks(Tail(top_results))
         IN  IF PassesThreshold(Head(top_results).score)
             THEN <<CodeChunk(Head(top_results))>> \o rest
             ELSE rest

\* the search without the sort of line 147
search_relevant_code_unsorted(query, code_embeddings, top_k) ==
    ToCodeChunks(Prefix(Similarities(query, code_embeddings), top_k))

search_relevant_code(query, code_embeddings, top_k) ==
    LET similarities == SortDesc(Similarities(query, code_embeddings))
        top_results == Prefix(similarities, top_k)
    IN  ToCodeChunks(top_results)

----------------------------------------------------------------------------
\* RAGService._analyze_dependencies

KeywordImport ==
    <<"i", "m", "p", "o", "r", "t">>

KeywordFrom ==
    <<"f", "r", "o", "m">>

KeywordRequire ==
    <<"r", "e", "q", "u", "i", "r", "e", "(">>

\* [a-zA-Z_]
IsIdentStart(c) ==
    \/ \E k \in 1..Len(LowerCase) : LowerCase[k] = c \/ UpperCase[k] = c
    \/ c = "_"

\* [a-zA-Z0-9_]
IsIdentChar(c) ==
    IsIdentStart(c) \/ c \in {"0", "1", "2", "3", "4", "5", "6", "7", "8", "9"}

\* ['"]
IsQuote(c) == c \in {"'", "\""}

\* [^'"]
IsNoQuote(c) == ~IsQuote(c)

\* membership of a character in one of the classes the patterns use
InClass(c, class) ==
    CASE class = "space" -> IsSpace(c)
      [] class = "ident" -> IsIdentChar(c)
      [] class = "noquote" -> IsNoQuote(c)

\* the last index of the longest run of characters of a class that starts at
\* i; i - 1 when the run is empty
RunEnd(s, i, class) ==
    LET stops == {k \in i..Len(s) : ~InClass(s[k], class)}
    IN  IF stops = {} THEN Len(s) ELSE Least(stops) - 1

\* keyword, \s+, ([a-zA-Z_][a-zA-Z0-9_]*) at i: the index of the last
\* character of the match, 0 when there is none
KeywordNameEnd(s, i, keyword) ==
    LET a == i + Len(keyword)
        w == RunEnd(s, a, "space")
    IN  IF /\ MatchAt(s, i, keyword)
           /\ w >= a
           /\ w + 1 <= Len(s)
           /\ IsIdentStart(s[w + 1])
        THEN RunEnd(s, w + 1, "ident")
        ELSE 0

\* re.findall of that pattern from index i on: the captured names
RECURSIVE FindAllNames(_, _, _)
FindAllNames(s, i, keyword) ==
    LET starts == {k \in i..Len(s) : KeywordNameEnd(s, k, keyword) # 0}
    IN  IF starts = {} THEN <<>>
        ELSE LET m == Least(starts)
                 e == KeywordNameEnd(s, m, keyword)
                 w == RunEnd(s, m + Len(keyword), "space")
             IN  <<SubSeq(s, w + 1, e)>> \o FindAllNames(s, e + 1, keyword)

\* ['"]([^'"]+)['"] at q: the index of the closing quote, 0 when there is none
QuotedEnd(s, q) ==
    LET e == RunEnd(s, q + 1, "noquote")
    IN  IF /\ q <= Len(s)
           /\ IsQuote(s[q])
           /\ e >= q + 1
           /\ e + 1 <= Len(s)
        THEN e + 1
        ELSE 0

\* require\(['"]([^'"]+)['"]\) at i: the index of the closing parenthesis
RequireEnd(s, i) ==
    LET q == i + Len(KeywordRequire)
        e == QuotedEnd(s, q)
    IN  IF /\ MatchAt(s, i, KeywordRequire)
           /\ e # 0
           /\ e + 1 <= Len(s)
           /\ s[e + 1] = ")"
        THEN e + 1
        ELSE 0

RECURSIVE FindAllRequires(_, _)
FindAllRequires(s, i) ==
    LET starts == {k \in i..Len(s) : RequireEnd(s, k) # 0}
    IN  IF starts = {} THEN <<>>
        ELSE LET m == Least(starts)
                 q == m + Len(KeywordRequire)
             IN  <<SubSeq(s, q + 1, RequireEnd(s, m) - 2)>>
                     \o FindAllRequires(s, RequireEnd(s, m) + 1)

\* from\s+['"]([^'"]+)['"] at p: the index of the opening quote, 0 when the
\* rest of the pattern does not match at p
FromQuote(s, p) ==
    LET b == p + Len(KeywordFrom)
        w == RunEnd(s, b, "space")
    IN  IF MatchAt(s, p, KeywordFrom) /\ w >= b /\ QuotedEnd(s, w + 1) # 0
        THEN w + 1
        ELSE 0

\* import\s+.*?from\s+['"]([^'"]+)['"] at i: the index of the "from" the match
\* uses, 0 when there is no match. The dot matches no line end, so no line end
\* lies between the white space after "import" and that "from".
ImportFromAt(s, i) ==
    LET a == i + Len(KeywordImport)
        w == RunEnd(s, a, "space")
        froms == {p \in (w + 1)..Len(s) :
                    /\ FromQuote(s, p) # 0
                    /\ \A k \in (w + 1)..(p - 1) : s[k] # "\n"}
    IN  IF MatchAt(s, i, KeywordImport) /\ w >= a /\ froms # {}
        THEN Least(froms)
        ELSE 0

RECURSIVE FindAllImportFroms(_, _)
FindAllImportFroms(s, i) ==
    LET starts == {k \in i..Len(s) : ImportFromAt(s, k) # 0}
    IN  IF starts = {} THEN <<>>
        ELSE LET m == Least(starts)
                 q == FromQuote(s, ImportFromAt(s, m))
             IN  <<SubSeq(s, q + 1, QuotedEnd(s, q) - 1)>>
                     \o FindAllImportFroms(s, QuotedEnd(s, q) + 1)

\* lines 389-396: all_imports of one chunk
AllImports(code) ==
    FindAllNames(code, 1, KeywordImport)
        \o FindAllNames(code, 1, KeywordFrom)
        \o FindAllRequires(code, 1)
        \o FindAllImportFroms(code, 1)

\* lines 398-400: the names not yet in the list are appended, in order
RECURSIVE AppendNew(_, _)
AppendNew(external, imports) ==
    IF imports = <<>> THEN external
    ELSE AppendNew(
             IF \E k \in 1..Len(external) : external[k] = Head(imports)
             THEN external ELSE Append(external, Head(imports)),
             Tail(imports))

\* lines 385-400 over all chunks
RECURSIVE ExternalImports(_, _)
ExternalImports(code_chunks, external) ==
    IF code_chunks = <<>> THEN external
    ELSE ExternalImports(Tail(code_chunks),
             AppendNew(external, AllImports(Head(code_chunks).code)))

\* A JSON text is written as the value it denotes: [kind |-> "invalid"] for a
\* text that is no JSON document, [kind |-> "array"], [kind |-> "null"] and
\* [kind |-> "string"] for documents of these kinds, [kind |-> "object",
\* names |-> ...] for an object with these member names in order, and the
\* manifest object itself with its two members of interest, each a value or
\* Missing.
Missing == [kind |-> "missing"]

JsonObject(names) == [kind |-> "object", names |-> names]

ManifestObject(dependencies, devDependencies) ==
    [kind |-> "object", dependencies |-> dependencies,
     devDependencies |-> devDependencies]

\* json.loads(text): raises on a text that is no JSON document
json_loads(text) ==
    IF text.kind = "invalid" THEN [raises |-> TRUE]
    ELSE [raises |-> FALSE, value |-> text]

\* package_data.get(key, {}): raises when package_data is no dict
DictGet(member) == IF member = Missing THEN JsonObject(<<>>) ELSE member

\* lines 376-382: the two lists after the try statement; an exception leaves
\* the lists as they are at the moment it is raised
ManifestLists(project_metadata) ==
    LET untouched == [runtime |-> <<>>, development |-> <<>>]
    IN  IF ~project_metadata.has_package_json THEN untouched
        ELSE LET package_data == json_loads(project_metadata.package_json)
             IN  IF package_data.raises THEN untouched
                 ELSE IF package_data.value.kind # "object" THEN untouched
                 ELSE LET deps == DictGet(package_data.value.dependencies)
                          dev == DictGet(package_data.value.devDependencies)
                      IN  IF deps.kind # "object" THEN untouched
                          ELSE IF dev.kind # "object"
                               THEN [runtime |-> deps.names, development |-> <<>>]
                               ELSE [runtime |-> deps.names, development |-> dev.names]

_analyze_dependencies(code_chunks, project_metadata) ==
    [runtime |-> ManifestLists(project_metadata).runtime,
     development |-> ManifestLists(project_metadata).development,
     external |-> ExternalImports(code_chunks, <<>>)]

----------------------------------------------------------------------------
\* RAGService.build_project_context: technology stack, architectural patterns,
\* similar implementations and best practices. A dict is the sequence of its
\* [key, count] items in insertion order.

\* lines 234-247: framework name and the substrings of code_lower that count it
FrameworkTable ==
    << [name |-> "react", words |-> <<<<"r", "e", "a", "c", "t">>, <<"j", "s", "x">>>>],
       [name |-> "vue", words |-> <<<<"v", "u", "e">>>>],
       [name |-> "angular", words |-> <<<<"a", "n", "g", "u", "l", "a", "r">>>>],
       [name |-> "flutter", words |-> <<<<"f", "l", "u", "t", "t", "e", "r">>>>],
       [name |-> "django", words |-> <<<<"d", "j", "a", "n", "g", "o">>>>],
       [name |-> "fastapi", words |-> <<<<"f", "a", "s", "t", "a", "p", "i">>>>],
       [name |-> "spring", words |-> <<<<"s", "p", "r", "i", "n", "g">>>>] >>

\* lines 250-257
LibraryTable ==
    << [name |-> "axios", words |-> <<<<"a", "x", "i", "o", "s">>>>],
       [name |-> "lodash", words |-> <<<<"l", "o", "d", "a", "s", "h">>>>],
       [name |-> "moment", words |-> <<<<"m", "o", "m", "e", "n", "t">>>>],
       [name |-> "pandas", words |-> <<<<"p", "a", "n", "d", "a", "s">>>>] >>

WordModel ==
    <<"m", "o", "d", "e", "l">>

WordView ==
    <<"v", "i", "e", "w">>

WordController ==
    <<"c", "o", "n", "t", "r", "o", "l", "l", "e", "r">>

WordComponent ==
    <<"c", "o", "m", "p", "o", "n", "e", "n", "t">>

WordComponents ==
    <<"c", "o", "m", "p", "o", "n", "e", "n", "t", "s">>

WordService ==
    <<"s", "e", "r", "v", "i", "c", "e">>

WordRepository ==
    <<"r", "e", "p", "o", "s", "i", "t", "o", "r", "y">>

WordDomain ==
    <<"d", "o", "m", "a", "i", "n">>

WordApplication ==
    <<"a", "p", "p", "l", "i", "c", "a", "t", "i", "o", "n">>

WordTry ==
    <<"t", "r", "y", ":">>

WordCatch ==
    <<"c", "a", "t", "c", "h">>

WordExcept ==
    <<"e", "x", "c", "e", "p", "t">>

WordDef ==
    <<"d", "e", "f", " ">>

WordFunction ==
    <<"f", "u", "n", "c", "t", "i", "o", "n">>

WordTripleDouble ==
    <<"\"", "\"", "\"">>

WordTripleSingle ==
    <<"'", "'", "'">>

WordSlashes ==
    <<"/", "/">>

WordTest ==
    <<"t", "e", "s", "t">>

WordSpec ==
    <<"s", "p", "e", "c">>

\* d[key] = d.get(key, 0) + 1
Increment(d, key) ==
    IF \E k \in 1..Len(d) : d[k].key = key
    THEN [k \in 1..Len(d) |->
             IF d[k].key = key THEN [d[k] EXCEPT !.count = @ + 1] ELSE d[k]]
    ELSE Append(d, [key |-> key, count |-> 1])

\* list(d.keys())
Keys(d) == [k \in 1..Len(d) |-> d[k].key]

\* lines 223-227: one count per chunk.language
RECURSIVE CountLanguages(_, _)
CountLanguages(code_chunks, d) ==
    IF code_chunks = <<>> THEN d
    ELSE CountLanguages(Tail(code_chunks), Increment(d, Head(code_chunks).language))

\* the "if <word> in code_lower" statements of one chunk, from table row k on
RECURSIVE CountRows(_, _, _, _)
CountRows(table, k, code_lower, d) ==
    IF k > Len(table) THEN d
    ELSE CountRows(table, k + 1, code_lower,
             IF AnyWordIn(table[k].words, code_lower)
             THEN Increment(d, table[k].name) ELSE d)

\* lines 230-257 for one of the two tables, over all chunks
RECURSIVE CountTable(_, _, _)
CountTable(table, code_chunks, d) ==
    IF code_chunks = <<>> THEN d
    ELSE CountTable(table, Tail(code_chunks),
             CountRows(table, 1, LowerText(Head(code_chunks).code), d))

_analyze_technology_stack(code_chunks) ==
    [languages |-> CountLanguages(code_chunks, <<>>),
     frameworks |-> CountTable(FrameworkTable, code_chunks, <<>>),
     libraries |-> CountTable(LibraryTable, code_chunks, <<>>)]

\* any(word in f.lower() for f in filenames)
AnyFilename(code_chunks, word) ==
    \E k \in 1..Len(code_chunks) :
        Contains(LowerText(code_chunks[k].filename), word)

\* the detection with MVC reported for model and view alone
_detect_architectural_patterns_two_of_three(code_chunks) ==
    (IF /\ AnyFilename(code_chunks, WordModel)
        /\ AnyFilename(code_chunks, WordView)
     THEN <<"MVC">> ELSE <<>>)
    \o (IF \/ AnyFilename(code_chunks, WordComponent)
           \/ AnyFilename(code_chunks, WordComponents)
        THEN <<"Component-based">> ELSE <<>>)
    \o (IF AnyFilename(code_chunks, WordService)
        THEN <<"Service Layer">> ELSE <<>>)
    \o (IF AnyFilename(code_chunks, WordRepository)
        THEN <<"Repository Pattern">> ELSE <<>>)
    \o (IF /\ AnyFilename(code_chunks, WordDomain)
           /\ AnyFilename(code_chunks, WordApplication)
        THEN <<"Clean Architecture">> ELSE <<>>)

\* lines 261-288
_detect_architectural_patterns(code_chunks) ==
    (IF /\ AnyFilename(code_chunks, WordModel)
        /\ AnyFilename(code_chunks, WordView)
        /\ AnyFilename(code_chunks, WordController)
     THEN <<"MVC">> ELSE <<>>)
    \o (IF \/ AnyFilename(code_chunks, WordComponent)
           \/ AnyFilename(code_chunks, WordComponents)
        THEN <<"Component-based">> ELSE <<>>)
    \o (IF AnyFilename(code_chunks, WordService)
        THEN <<"Service Layer">> ELSE <<>>)
    \o (IF AnyFilename(code_chunks, WordRepository)
        THEN <<"Repository Pattern">> ELSE <<>>)
    \o (IF /\ AnyFilename(code_chunks, WordDomain)
           /\ AnyFilename(code_chunks, WordApplication)
        THEN <<"Clean Architecture">> ELSE <<>>)

\* lines 346-363 for one chunk: the labels its code gives
ChunkPractices(code) ==
    (IF \/ Contains(code, WordTry) \/ Contains(code, WordCatch)
        \/ Contains(code, WordExcept)
     THEN {"Error Handling"} ELSE {})
    \cup (IF /\ Contains(code, <<":">>)
             /\ (Contains(code, WordDef) \/ Contains(code, WordFunction))
          THEN {"Type Annotations"} ELSE {})
    \cup (IF \/ Contains(code, WordTripleDouble) \/ Contains(code, WordTripleSingle)
             \/ Contains(code, WordSlashes)
          THEN {"Code Documentation"} ELSE {})
    \cup (IF \/ Contains(LowerText(code), WordTest)
             \/ Contains(LowerText(code), WordSpec)
          THEN {"Testing"} ELSE {})

\* list(set(practices)): the labels, in no particular order
_identify_best_practices(code_chunks) ==
    UNION {ChunkPractices(code_chunks[k].code) : k \in 1..Len(code_chunks)}

HighRelevance == 7     \* the threshold 0.7, in tenths

MaxExamples == 5

\* chunk.filename.split('/')[-1]
Basename(filename) ==
    LET slashes == {k \in 1..Len(filename) : filename[k] = "/"}
    IN  IF slashes = {} THEN filename ELSE DropFirst(filename, Greatest(slashes))

\* f"{chunk.language}_{chunk.filename.split('/')[-1]}"
GroupKey(chunk) == chunk.language \o <<"_">> \o Basename(chunk.filename)

HighlyRelevantInclusive(chunk) == ~Greater([num |-> HighRelevance, den |-> 10], chunk.score)

\* "if chunk.score > 0.7"
HighlyRelevant(chunk) == Greater(chunk.score, [num |-> HighRelevance, den |-> 10])

\* the keys of the dict grouped, in insertion order
RECURSIVE GroupKeys(_, _)
GroupKeys(chunks, keys) ==
    IF chunks = <<>> THEN keys
    ELSE GroupKeys(Tail(chunks),
             IF \E k \in 1..Len(keys) : keys[k] = GroupKey(Head(chunks))
             THEN keys ELSE Append(keys, GroupKey(Head(chunks))))

FirstChunk(chunks) == chunks[1]

\* max(chunks, key=lambda x: x.score): the first chunk of maximal score
BestChunk(chunks) ==
    chunks[Least({k \in 1..Len(chunks) :
        \A j \in 1..Len(chunks) : AtMost(chunks[j].score, chunks[k].score)})]

_extract_similar_implementations(code_chunks) ==
    LET relevant == SelectSeq(code_chunks, HighlyRelevant)
        keys == GroupKeys(relevant, <<>>)
        similar_impls ==
            [k \in 1..Len(keys) |->
                BestChunk(SelectSeq(relevant, LAMBDA c : GroupKey(c) = keys[k]))]
    IN  Prefix(similar_impls, MaxExamples)

\* (coding_conventions feeds the prompt text only)
build_project_context(code_chunks, project_metadata) ==
    [technology_stack |-> _analyze_technology_stack(code_chunks),
     architectural_patterns |-> _detect_architectural_patterns(code_chunks),
     similar_implementations |-> _extract_similar_implementations(code_chunks),
     best_practices |-> _identify_best_practices(code_chunks),
     dependencies |-> _analyze_dependencies(code_chunks, project_metadata)]

----------------------------------------------------------------------------
\* RAGService._analyze_coding_conventions and _build_conventions_context

KeywordDef ==
    <<"d", "e", "f">>

KeywordFunction ==
    <<"f", "u", "n", "c", "t", "i", "o", "n">>

KeywordConst ==
    <<"c", "o", "n", "s", "t">>

NamePascalCase ==
    <<"P", "a", "s", "c", "a", "l", "C", "a", "s", "e">>

NameSnakeCase ==
    <<"s", "n", "a", "k", "e", "_", "c", "a", "s", "e">>

NameCamelCase ==
    <<"c", "a", "m", "e", "l", "C", "a", "s", "e">>

ConventionsHeader ==
    <<"C", "O", "D", "I", "N", "G", " ", "C", "O", "N", "V", "E", "N", "T",
      "I", "O", "N", "S", ":", "\n">>

NamingLabel ==
    <<"-", " ", "N", "a", "m", "i", "n", "g", " ", "C", "o", "n", "v", "e",
      "n", "t", "i", "o", "n", ":", " ">>

\* [a-z] and [A-Z]; str.isupper of one character
IsLower(c) == \E k \in 1..Len(LowerCase) : LowerCase[k] = c

IsUpper(c) == \E k \in 1..Len(UpperCase) : UpperCase[k] = c

IsDigit(c) == c \in {"0", "1", "2", "3", "4", "5", "6", "7", "8", "9"}

\* the character classes of the three declaration patterns
InNameClass(c, class) ==
    CASE class = "[a-z_]" -> IsLower(c) \/ c = "_"
      [] class = "[a-z0-9_]" -> IsLower(c) \/ IsDigit(c) \/ c = "_"
      [] class = "[a-z]" -> IsLower(c)
      [] class = "[a-zA-Z]" -> IsLower(c) \/ IsUpper(c)
      [] class = "[a-zA-Z0-9]" -> IsLower(c) \/ IsUpper(c) \/ IsDigit(c)

\* the last index of the longest run of characters of a class from i on;
\* i - 1 when the run is empty
NameRunEnd(s, i, class) ==
    LET stops == {k \in i..Len(s) : ~InNameClass(s[k], class)}
    IN  IF stops = {} THEN Len(s) ELSE Least(stops) - 1

\* keyword, \s+, (first rest*) and, for the const pattern, \s*= at i: the
\* indices of the first and last character of the name and of the last
\* character of the match; [found |-> FALSE] when the pattern does not match
DeclarationAt(s, i, pattern) ==
    LET a == i + Len(pattern.keyword)
        w == RunEnd(s, a, "space")
        e == NameRunEnd(s, w + 2, pattern.rest)
        q == RunEnd(s, e + 1, "space")
    IN  IF /\ MatchAt(s, i, pattern.keyword)
           /\ w >= a
           /\ w + 1 <= Len(s)
           /\ InNameClass(s[w + 1], pattern.first)
        THEN IF ~pattern.assigned
             THEN [found |-> TRUE, from |-> w + 1, to |-> e, last |-> e]
             ELSE IF q + 1 <= Len(s) /\ s[q + 1] = "="
                  THEN [found |-> TRUE, from |-> w + 1, to |-> e, last |-> q + 1]
                  ELSE [found |-> FALSE]
        ELSE [found |-> FALSE]

\* re.findall(pattern, code) from index i on: the captured names
RECURSIVE FindAllDeclarations(_, _, _)
FindAllDeclarations(s, i, pattern) ==
    LET starts == {k \in i..Len(s) : DeclarationAt(s, k, pattern).found}
    IN  IF starts = {} THEN <<>>
        ELSE LET m == DeclarationAt(s, Least(starts), pattern)
             IN  <<SubSeq(s, m.from, m.to)>>
                     \o FindAllDeclarations(s, m.last + 1, pattern)

\* the patterns with the first character of a name in any case
function_patterns_any_case ==
    <<[keyword |-> KeywordDef, first |-> "[a-zA-Z]", rest |-> "[a-z0-9_]",
       assigned |-> FALSE],
      [keyword |-> KeywordFunction, first |-> "[a-zA-Z]", rest |-> "[a-zA-Z0-9]",
       assigned |-> FALSE],
      [keyword |-> KeywordConst, first |-> "[a-zA-Z]", rest |-> "[a-zA-Z0-9]",
       assigned |-> TRUE]>>

\* lines 303-307
function_patterns ==
    <<[keyword |-> KeywordDef, first |-> "[a-z_]", rest |-> "[a-z0-9_]",
       assigned |-> FALSE],
      [keyword |-> KeywordFunction, first |-> "[a-z]", rest |-> "[a-zA-Z0-9]",
       assigned |-> FALSE],
      [keyword |-> KeywordConst, first |-> "[a-z]", rest |-> "[a-zA-Z0-9]",
       assigned |-> TRUE]>>

\* lines 309-310: the matches of the three patterns in one code, in order
CodeMatches(code) ==
    FindAllDeclarations(code, 1, function_patterns[1])
        \o FindAllDeclarations(code, 1, function_patterns[2])
        \o FindAllDeclarations(code, 1, function_patterns[3])

\* lines 312-317: the key one match is counted under
NamingKey(match) ==
    IF IsUpper(match[1]) THEN NamePascalCase
    ELSE IF Contains(match, <<"_">>) THEN NameSnakeCase
    ELSE NameCamelCase

RECURSIVE CountMatches(_, _)
CountMatches(matches, naming) ==
    IF matches = <<>> THEN naming
    ELSE CountMatches(Tail(matches), Increment(naming, NamingKey(Head(matches))))

RECURSIVE CountNaming(_, _)
CountNaming(code_chunks, naming) ==
    IF code_chunks = <<>> THEN naming
    ELSE CountNaming(Tail(code_chunks),
                     CountMatches(CodeMatches(Head(code_chunks).code), naming))

\* the dicts naming, structure and style as sequences of items
_analyze_coding_conventions(code_chunks) ==
    [naming |-> CountNaming(code_chunks, <<>>), structure |-> <<>>, style |-> <<>>]

\* max(naming.items(), key=lambda x: x[1])[0]: the first key of maximal count
DominantStyle(naming) ==
    naming[Least({k \in 1..Len(naming) :
        \A j \in 1..Len(naming) : naming[j].count <= naming[k].count})].key

_build_conventions_context(coding_conventions) ==
    IF coding_conventions.naming # <<>>
    THEN ConventionsHeader \o NamingLabel
             \o DominantStyle(coding_conventions.naming) \o <<"\n">>
    ELSE ConventionsHeader

----------------------------------------------------------------------------
\* IntelligentTicketGenerator._get_placeholder_embeddings (the texts of lines
\* 96-117) and the other texts of the orchestrator

PlaceholderLoginFormFile ==
    <<"a", "p", "p", "/", "c", "o", "m", "p", "o", "n", "e", "n", "t", "s",
      "/", "L", "o", "g", "i", "n", "F", "o", "r", "m", ".", "t", "s", "x">>

PlaceholderLoginFormCode ==
    <<"e", "x", "p", "o", "r", "t", " ", "d", "e", "f", "a", "u", "l", "t", " ", "f",
      "u", "n", "c", "t", "i", "o", "n", " ", "L", "o", "g", "i", "n", "F", "o", "r",
      "m", "(", ")", " ", "{", "\n", " ", " ", "c", "o", "n", "s", "t", " ", "[", "e",
      "m", "a", "i", "l", ",", " ", "s", "e", "t", "E", "m", "a", "i", "l", "]", " ",
      "=", " ", "u", "s", "e", "S", "t", "a", "t", "e", "(", "'", "'", ")", ";", "\n",
      " ", " ", "c", "o", "n", "s", "t", " ", "[", "p", "a", "s", "s", "w", "o", "r",
      "d", ",", " ", "s", "e", "t", "P", "a", "s", "s", "w", "o", "r", "d", "]", " ",
      "=", " ", "u", "s", "e", "S", "t", "a", "t", "e", "(", "'", "'", ")", ";", "\n",
      " ", " ", "\n", " ", " ", "c", "o", "n", "s", "t", " ", "h", "a", "n", "d", "l",
      "e", "S", "u", "b", "m", "i", "t", " ", "=", " ", "a", "s", "y", "n", "c", " ",
      "(", "e", ")", " ", "=", ">", " ", "{", "\n", " ", " ", " ", " ", "e", ".", "p",
      "r", "e", "v", "e", "n", "t", "D", "e", "f", "a", "u", "l", "t", "(", ")", ";",
      "\n", " ", " ", " ", " ", "/", "/", " ", "L", "o", "g", "i", "n", " ", "l", "o",
      "g", "i", "c", " ", "h", "e", "r", "e", "\n", " ", " ", "}", ";", "\n", " ", " ",
      "\n", " ", " ", "r", "e", "t", "u", "r", "n", " ", "(", "\n", " ", " ", " ", " ",
      "<", "f", "o", "r", "m", " ", "o", "n", "S", "u", "b", "m", "i", "t", "=", "{",
      "h", "a", "n", "d", "l", "e", "S", "u", "b", "m", "i", "t", "}", ">", "\n", " ",
      " ", " ", " ", " ", " ", "<", "i", "n", "p", "u", "t", " ", "t", "y", "p", "e",
      "=", "'", "e", "m", "a", "i", "l", "'", " ", "v", "a", "l", "u", "e", "=", "{",
      "e", "m", "a", "i", "l", "}", " ", "o", "n", "C", "h", "a", "n", "g", "e", "=",
      "{", "(", "e", ")", " ", "=", ">", " ", "s", "e", "t", "E", "m", "a", "i", "l",
      "(", "e", ".", "t", "a", "r", "g", "e", "t", ".", "v", "a", "l", "u", "e", ")",
      "}", " ", "/", ">", "\n", " ", " ", " ", " ", " ", " ", "<", "i", "n", "p", "u",
      "t", " ", "t", "y", "p", "e", "=", "'", "p", "a", "s", "s", "w", "o", "r", "d",
      "'", " ", "v", "a", "l", "u", "e", "=", "{", "p", "a", "s", "s", "w", "o", "r",
      "d", "}", " ", "o", "n", "C", "h", "a", "n", "g", "e", "=", "{", "(", "e", ")",
      " ", "=", ">", " ", "s", "e", "t", "P", "a", "s", "s", "w", "o", "r", "d", "(",
      "e", ".", "t", "a", "r", "g", "e", "t", ".", "v", "a", "l", "u", "e", ")", "}",
      " ", "/", ">", "\n", " ", " ", " ", " ", " ", " ", "<", "b", "u", "t", "t", "o",
      "n", " ", "t", "y", "p", "e", "=", "'", "s", "u", "b", "m", "i", "t", "'", ">",
      "L", "o", "g", "i", "n", "<", "/", "b", "u", "t", "t", "o", "n", ">", "\n", " ",
      " ", " ", " ", "<", "/", "f", "o", "r", "m", ">", "\n", " ", " ", ")", ";", "\n",
      "}">>

PlaceholderAuthRouteFile ==
    <<"a", "p", "p", "/", "a", "p", "i", "/", "a", "u", "t", "h", "/", "r",
      "o", "u", "t", "e", ".", "t", "s">>

PlaceholderAuthRouteCode ==
    <<"i", "m", "p", "o", "r", "t", " ", "{", " ", "N", "e", "x", "t", "R", "e", "q",
      "u", "e", "s", "t", ",", " ", "N", "e", "x", "t", "R", "e", "s", "p", "o", "n",
      "s", "e", " ", "}", " ", "f", "r", "o", "m", " ", "'", "n", "e", "x", "t", "/",
      "s", "e", "r", "v", "e", "r", "'", ";", "\n", "\n", "e", "x", "p", "o", "r", "t",
      " ", "a", "s", "y", "n", "c", " ", "f", "u", "n", "c", "t", "i", "o", "n", " ",
      "P", "O", "S", "T", "(", "r", "e", "q", "u", "e", "s", "t", ":", " ", "N", "e",
      "x", "t", "R", "e", "q", "u", "e", "s", "t", ")", " ", "{", "\n", " ", " ", "t",
      "r", "y", " ", "{", "\n", " ", " ", " ", " ", "c", "o", "n", "s", "t", " ", "{",
      " ", "e", "m", "a", "i", "l", ",", " ", "p", "a", "s", "s", "w", "o", "r", "d",
      " ", "}", " ", "=", " ", "a", "w", "a", "i", "t", " ", "r", "e", "q", "u", "e",
      "s", "t", ".", "j", "s", "o", "n", "(", ")", ";", "\n", " ", " ", " ", " ", "\n",
      " ", " ", " ", " ", "/", "/", " ", "A", "u", "t", "h", "e", "n", "t", "i", "c",
      "a", "t", "i", "o", "n", " ", "l", "o", "g", "i", "c", " ", "h", "e", "r", "e",
      "\n", " ", " ", " ", " ", "\n", " ", " ", " ", " ", "r", "e", "t", "u", "r", "n",
      " ", "N", "e", "x", "t", "R", "e", "s", "p", "o", "n", "s", "e", ".", "j", "s",
      "o", "n", "(", "{", " ", "s", "u", "c", "c", "e", "s", "s", ":", " ", "t", "r",
      "u", "e", " ", "}", ")", ";", "\n", " ", " ", "}", " ", "c", "a", "t", "c", "h",
      " ", "(", "e", "r", "r", "o", "r", ")", " ", "{", "\n", " ", " ", " ", " ", "r",
      "e", "t", "u", "r", "n", " ", "N", "e", "x", "t", "R", "e", "s", "p", "o", "n",
      "s", "e", ".", "j", "s", "o", "n", "(", "{", " ", "e", "r", "r", "o", "r", ":",
      " ", "'", "A", "u", "t", "h", "e", "n", "t", "i", "c", "a", "t", "i", "o", "n",
      " ", "f", "a", "i", "l", "e", "d", "'", " ", "}", ",", " ", "{", " ", "s", "t",
      "a", "t", "u", "s", ":", " ", "4", "0", "0", " ", "}", ")", ";", "\n", " ", " ",
      "}", "\n", "}">>

PlaceholderButtonFile ==
    <<"c", "o", "m", "p", "o", "n", "e", "n", "t", "s", "/", "u", "i", "/",
      "b", "u", "t", "t", "o", "n", ".", "t", "s", "x">>

PlaceholderButtonCode ==
    <<"i", "m", "p", "o", "r", "t", " ", "*", " ", "a", "s", " ", "R", "e", "a", "c",
      "t", " ", "f", "r", "o", "m", " ", "'", "r", "e", "a", "c", "t", "'", ";", "\n",
      "i", "m", "p", "o", "r", "t", " ", "{", " ", "c", "n", " ", "}", " ", "f", "r",
      "o", "m", " ", "'", "@", "/", "l", "i", "b", "/", "u", "t", "i", "l", "s", "'",
      ";", "\n", "\n", "e", "x", "p", "o", "r", "t", " ", "i", "n", "t", "e", "r", "f",
      "a", "c", "e", " ", "B", "u", "t", "t", "o", "n", "P", "r", "o", "p", "s", " ",
      "e", "x", "t", "e", "n", "d", "s", " ", "R", "e", "a", "c", "t", ".", "B", "u",
      "t", "t", "o", "n", "H", "T", "M", "L", "A", "t", "t", "r", "i", "b", "u", "t",
      "e", "s", "<", "H", "T", "M", "L", "B", "u", "t", "t", "o", "n", "E", "l", "e",
      "m", "e", "n", "t", ">", " ", "{", "\n", " ", " ", "v", "a", "r", "i", "a", "n",
      "t", "?", ":", " ", "'", "d", "e", "f", "a", "u", "l", "t", "'", " ", "|", " ",
      "'", "o", "u", "t", "l", "i", "n", "e", "'", " ", "|", " ", "'", "g", "h", "o",
      "s", "t", "'", ";", "\n", " ", " ", "s", "i", "z", "e", "?", ":", " ", "'", "d",
      "e", "f", "a", "u", "l", "t", "'", " ", "|", " ", "'", "s", "m", "'", " ", "|",
      " ", "'", "l", "g", "'", ";", "\n", "}", "\n", "\n", "c", "o", "n", "s", "t", " ",
      "B", "u", "t", "t", "o", "n", " ", "=", " ", "R", "e", "a", "c", "t", ".", "f",
      "o", "r", "w", "a", "r", "d", "R", "e", "f", "<", "H", "T", "M", "L", "B", "u",
      "t", "t", "o", "n", "E", "l", "e", "m", "e", "n", "t", ",", " ", "B", "u", "t",
      "t", "o", "n", "P", "r", "o", "p", "s", ">", "(", "\n", " ", " ", "(", "{", " ",
      "c", "l", "a", "s", "s", "N", "a", "m", "e", ",", " ", "v", "a", "r", "i", "a",
      "n", "t", " ", "=", " ", "'", "d", "e", "f", "a", "u", "l", "t", "'", ",", " ",
      "s", "i", "z", "e", " ", "=", " ", "'", "d", "e", "f", "a", "u", "l", "t", "'",
      ",", " ", ".", ".", ".", "p", "r", "o", "p", "s", " ", "}", ",", " ", "r", "e",
      "f", ")", " ", "=", ">", " ", "{", "\n", " ", " ", " ", " ", "r", "e", "t", "u",
      "r", "n", " ", "(", "\n", " ", " ", " ", " ", " ", " ", "<", "b", "u", "t", "t",
      "o", "n", "\n", " ", " ", " ", " ", " ", " ", " ", " ", "c", "l", "a", "s", "s",
      "N", "a", "m", "e", "=", "{", "c", "n", "(", "\n", " ", " ", " ", " ", " ", " ",
      " ", " ", " ", " ", "'", "i", "n", "l", "i", "n", "e", "-", "f", "l", "e", "x",
      " ", "i", "t", "e", "m", "s", "-", "c", "e", "n", "t", "e", "r", " ", "j", "u",
      "s", "t", "i", "f", "y", "-", "c", "e", "n", "t", "e", "r", " ", "r", "o", "u",
      "n", "d", "e", "d", "-", "m", "d", " ", "t", "e", "x", "t", "-", "s", "m", " ",
      "f", "o", "n", "t", "-", "m", "e", "d", "i", "u", "m", "'", ",", "\n", " ", " ",
      " ", " ", " ", " ", " ", " ", " ", " ", "'", "t", "r", "a", "n", "s", "i", "t",
      "i", "o", "n", "-", "c", "o", "l", "o", "r", "s", " ", "f", "o", "c", "u", "s",
      "-", "v", "i", "s", "i", "b", "l", "e", ":", "o", "u", "t", "l", "i", "n", "e",
      "-", "n", "o", "n", "e", " ", "f", "o", "c", "u", "s", "-", "v", "i", "s", "i",
      "b", "l", "e", ":", "r", "i", "n", "g", "-", "2", "'", ",", "\n", " ", " ", " ",
      " ", " ", " ", " ", " ", " ", " ", "c", "l", "a", "s", "s", "N", "a", "m", "e",
      "\n", " ", " ", " ", " ", " ", " ", " ", " ", ")", "}", "\n", " ", " ", " ", " ",
      " ", " ", " ", " ", "r", "e", "f", "=", "{", "r", "e", "f", "}", "\n", " ", " ",
      " ", " ", " ", " ", " ", " ", "{", ".", ".", ".", "p", "r", "o", "p", "s", "}",
      "\n", " ", " ", " ", " ", " ", " ", "/", ">", "\n", " ", " ", " ", " ", ")", ";",
      "\n", " ", " ", "}", "\n", ")", ";", "\n", "B", "u", "t", "t", "o", "n", ".", "d",
      "i", "s", "p", "l", "a", "y", "N", "a", "m", "e", " ", "=", " ", "'", "B", "u",
      "t", "t", "o", "n", "'", ";", "\n", "\n", "e", "x", "p", "o", "r", "t", " ", "{",
      " ", "B", "u", "t", "t", "o", "n", " ", "}", ";">>

LangTypescript ==
    <<"t", "y", "p", "e", "s", "c", "r", "i", "p", "t">>

\* cocoindex_service.py line 247
ErrInitFailed ==
    <<"C", "o", "c", "o", "I", "n", "d", "e", "x", " ", "i", "n", "i", "t",
      "i", "a", "l", "i", "z", "a", "t", "i", "o", "n", " ", "f", "a", "i",
      "l", "e", "d">>

\* the ValueError of clone_repository, line 238
ErrOnlyGitHub ==
    <<"O", "n", "l", "y", " ", "G", "i", "t", "H", "u", "b", " ", "r", "e",
      "p", "o", "s", "i", "t", "o", "r", "i", "e", "s", " ", "a", "r", "e",
      " ", "s", "u", "p", "p", "o", "r", "t", "e", "d", " ", "f", "o", "r",
      " ", "n", "o", "w">>

\* str(e) of a failed git clone (both attempts of lines 222-236)
ErrGitClone ==
    <<"g", "i", "t", " ", "c", "l", "o", "n", "e", " ", "f", "a", "i", "l",
      "e", "d">>

\* str(IndexError) of a list subscript
ErrListIndex ==
    <<"l", "i", "s", "t", " ", "i", "n", "d", "e", "x", " ", "o", "u", "t",
      " ", "o", "f", " ", "r", "a", "n", "g", "e">>

\* a failure message of the generation call
ErrTimeout ==
    <<"R", "e", "q", "u", "e", "s", "t", " ", "t", "i", "m", "e", "d", " ",
      "o", "u", "t", ".">>

\* another failure message of the generation call
ErrRateLimit ==
    <<"r", "a", "t", "e", " ", "l", "i", "m", "i", "t">>

GitHubHost ==
    <<"g", "i", "t", "h", "u", "b", ".", "c", "o", "m">>

RepoGitHub ==
    <<"h", "t", "t", "p", "s", ":", "/", "/", "g", "i", "t", "h", "u", "b",
      ".", "c", "o", "m", "/", "o", "/", "r">>

RepoOther ==
    <<"h", "t", "t", "p", "s", ":", "/", "/", "g", "i", "t", "l", "a", "b",
      ".", "c", "o", "m", "/", "o", "/", "r">>

RequestAddLogin ==
    <<"A", "d", "d", " ", "l", "o", "g", "i", "n", " ", "f", "o", "r", "m">>

RequestFixBug ==
    <<"f", "i", "x", " ", "t", "h", "e", " ", "l", "o", "g", "i", "n", " ",
      "b", "u", "g">>

RequestButton ==
    <<"R", "e", "f", "a", "c", "t", "o", "r", " ", "t", "h", "e", " ", "B",
      "u", "t", "t", "o", "n", " ", "c", "o", "m", "p", "o", "n", "e", "n",
      "t">>

RequestEmpty ==
    <<>>

_get_placeholder_embeddings ==
    << [filename |-> PlaceholderLoginFormFile, code |-> PlaceholderLoginFormCode,
        pad |-> 0, language |-> LangTypescript],
       [filename |-> PlaceholderAuthRouteFile, code |-> PlaceholderAuthRouteCode,
        pad |-> 0, language |-> LangTypescript],
       [filename |-> PlaceholderButtonFile, code |-> PlaceholderButtonCode,
        pad |-> 0, language |-> LangTypescript] >>

\* lines 119-136: the manifest of the placeholder metadata
DepReact ==
    <<"r", "e", "a", "c", "t">>

DepNext ==
    <<"n", "e", "x", "t">>

DepTypescript ==
    <<"t", "y", "p", "e", "s", "c", "r", "i", "p", "t">>

DepRadixDialog ==
    <<"@", "r", "a", "d", "i", "x", "-", "u", "i", "/", "r", "e", "a", "c",
      "t", "-", "d", "i", "a", "l", "o", "g">>

DepLucide ==
    <<"l", "u", "c", "i", "d", "e", "-", "r", "e", "a", "c", "t">>

DepTailwind ==
    <<"t", "a", "i", "l", "w", "i", "n", "d", "c", "s", "s">>

DepEslint ==
    <<"e", "s", "l", "i", "n", "t">>

_get_placeholder_metadata ==
    [has_package_json |-> TRUE,
     package_json |->
        ManifestObject(
            JsonObject(<<DepReact, DepNext, DepTypescript, DepRadixDialog, DepLucide>>),
            JsonObject(<<DepTailwind, DepEslint>>))]

----------------------------------------------------------------------------
\* RAGService.generate_contextual_prompt. The prompt is kept as the record of
\* the parts the template interpolates.

TopLanguages == 3

TopFrameworks == 3

TopLibraries == 5

PromptExamples == 3

ExcerptLength == 200

\* insertion of item x behind every item whose count is not smaller
InsertByCount(sorted, x) ==
    LET before == {k \in 1..Len(sorted) : sorted[k].count >= x.count}
        cut == IF before = {} THEN 0 ELSE Greatest(before)
    IN  SubSeq(sorted, 1, cut) \o <<x>> \o DropFirst(sorted, cut)

\* sorted(d.items(), key=lambda x: x[1], reverse=True)
RECURSIVE SortByCount(_)
SortByCount(d) ==
    IF d = <<>> THEN <<>>
    ELSE InsertByCount(SortByCount(SubSeq(d, 1, Len(d) - 1)), d[Len(d)])

_build_technology_context(technology_stack) ==
    [languages |-> Keys(Prefix(SortByCount(technology_stack.languages), TopLanguages)),
     frameworks |->
         Keys(Prefix(SortByCount(technology_stack.frameworks), TopFrameworks)),
     libraries |-> Keys(Prefix(SortByCount(technology_stack.libraries), TopLibraries))]

\* "ARCHITECTURE: Standard application architecture" when no pattern was found
_build_architectural_context(architectural_patterns) ==
    [placeholder |-> architectural_patterns = <<>>,
     patterns |-> architectural_patterns]

\* line 495
NoExamplesText ==
    <<"E", "X", "A", "M", "P", "L", "E", "S", ":", " ", "N", "o", " ", "s",
      "p", "e", "c", "i", "f", "i", "c", " ", "e", "x", "a", "m", "p", "l",
      "e", "s", " ", "a", "v", "a", "i", "l", "a", "b", "l", "e", "\n">>

\* line 497
ExamplesHeaderText ==
    <<"S", "I", "M", "I", "L", "A", "R", " ", "I", "M", "P", "L", "E", "M",
      "E", "N", "T", "A", "T", "I", "O", "N", "S", " ", "(", "f", "o", "r",
      " ", "r", "e", "f", "e", "r", "e", "n", "c", "e", ")", ":", "\n">>

\* the examples text without the branch of lines 494-495 for an empty list
_build_examples_context_no_placeholder(similar_implementations) ==
    LET shown == Prefix(similar_implementations, PromptExamples)
    IN  [placeholder |-> FALSE,
         header |-> ExamplesHeaderText,
         examples |-> [k \in 1..Len(shown) |->
             [filename |-> shown[k].filename,
              language |-> shown[k].language,
              code |-> Prefix(shown[k].code, ExcerptLength)]]]

\* the first line of the text, and the examples listed under it
_build_examples_context(similar_implementations) ==
    LET shown == Prefix(similar_implementations, PromptExamples)
    IN  [placeholder |-> similar_implementations = <<>>,
         header |-> IF similar_implementations = <<>> THEN NoExamplesText
                    ELSE ExamplesHeaderText,
         examples |-> [k \in 1..Len(shown) |->
             [filename |-> shown[k].filename,
              language |-> shown[k].language,
              code |-> Prefix(shown[k].code, ExcerptLength)]]]

generate_contextual_prompt(user_request, project_context, request_analysis) ==
    [tech_context |-> _build_technology_context(project_context.technology_stack),
     arch_context |->
         _build_architectural_context(project_context.architectural_patterns),
     request_analysis |-> request_analysis,
     examples_context |->
         _build_examples_context(project_context.similar_implementations),
     user_request |-> user_request]

----------------------------------------------------------------------------
\* IntelligentTicketGenerator._generate_ticket_with_llm

\* the dictionary of the except clause without the message of the exception
ErrorTicketNoDetail(message) ==
    [title |-> ErrorTitle,
     description |-> ErrorPrefix,
     acceptance_criteria |-> <<>>,
     files_to_modify |-> <<>>]

\* the dictionary of the except clause, lines 173-178
ErrorTicket(message) ==
    [title |-> ErrorTitle,
     description |-> ErrorPrefix \o message,
     acceptance_criteria |-> <<>>,
     files_to_modify |-> <<>>]

\* (response.choices[0].message.content or "").strip()
ResponseContent(response) ==
    Strip(IF response.kind = "none" THEN <<>> ELSE response.content)

\* response: what the generation call does: [kind |-> "raises", message], or it
\* returns [kind |-> "content", content] or a message without content,
\* [kind |-> "none"]. The try block ends in the except clause when the call
\* or the parser raises.
_generate_ticket_with_llm(contextual_prompt, user_request, response) ==
    IF response.kind = "raises" THEN ErrorTicket(response.message)
    ELSE LET markdown_content == _sanitize_ticket(ResponseContent(response))
             ticket == _parse_generated_ticket(markdown_content)
         IN  IF "exception" \in DOMAIN ticket THEN ErrorTicket(ErrListIndex)
             ELSE ticket

----------------------------------------------------------------------------
\* State

VARIABLES
    \* one run of generate_intelligent_ticket
    pc,               \* the stage the run is at
    trace,            \* the stages executed so far, in order
    user_request,     \* argument
    repo_url,         \* argument
    indexing_result,  \* locals of the coroutine, None until assigned
    request_analysis,
    relevant_code,
    project_context,
    contextual_prompt,
    response,         \* what the generation call did, None until it ends
    envelope,         \* the returned dictionary, None until the run returns
    \* sanitizer and parser applied to one text
    md,           \* the text given to _sanitize_ticket / _parse_generated_ticket
    cleaned,      \* _sanitize_ticket(md)
    recleaned,    \* _sanitize_ticket(cleaned)
    parsed,       \* the result of _parse_generated_ticket
    tstep,        \* which of the calls have been made
    \* one call of search_relevant_code
    query,
    code_embeddings,
    top_k,
    code_chunks,  \* the returned list
    sstep,
    embedding_model,  \* self.embedding_model of the RAGService of the call
    \* several runs of generate_intelligent_ticket on one event loop
    loop,         \* the run whose coroutine the loop thread executes, 0 when none
    frames,       \* per run: its arguments, its position, its locals, its result
    \* one call of a method of RAGService on its own
    call,         \* the method called and its arguments
    returned      \* what the call returned

runVars ==
    <<pc, trace, user_request, repo_url, indexing_result, request_analysis,
      relevant_code, project_context, contextual_prompt, response, envelope>>

ticketVars == <<md, cleaned, recleaned, parsed, tstep>>

searchVars == <<query, code_embeddings, top_k, code_chunks, sstep, embedding_model>>

concVars == <<loop, frames>>
callVars == <<call, returned>>

vars == <<runVars, ticketVars, searchVars, concVars, callVars>>

\* Python's None
None == [is_none |-> TRUE]

\* relevant_code before line 49 binds it: the local holds no list of chunks
\* yet; a one-slot tuple around None differs from every list the search returns
NotRanked == <<None>>

\* the variables of a part that a specification does not exercise
RunIdle ==
    /\ pc = "idle"
    /\ trace = <<>>
    /\ user_request = <<>>
    /\ repo_url = <<>>
    /\ indexing_result = None
    /\ request_analysis = None
    /\ relevant_code = NotRanked
    /\ project_context = None
    /\ contextual_prompt = None
    /\ response = None
    /\ envelope = None

TicketIdle ==
    /\ md = <<>>
    /\ cleaned = None
    /\ recleaned = None
    /\ parsed = None
    /\ tstep = "idle"

SearchIdle ==
    /\ query = <<>>
    /\ code_embeddings = <<>>
    /\ top_k = 0
    /\ code_chunks = None
    /\ sstep = "idle"
    /\ embedding_model = None

ConcIdle ==
    /\ loop = 0
    /\ frames = <<>>

CallIdle ==
    /\ call = None
    /\ returned = None

----------------------------------------------------------------------------
\* Input texts of the sanitizer and the parser: up to MaxPieces pieces, joined

\* the first half of a disallowed label
PieceLabelHead ==
    <<"*", "*", "P", "r", "i", "o">>

\* the second half of that label, its value and the line end
PieceLabelTail ==
    <<"r", "i", "t", "y", ":", "*", "*", " ", "P", "1", "\n">>

\* a fenced code block
PieceFence ==
    <<"~", "~", "~", "x", "~", "~", "~">>

\* the heading of the example section
PieceExample ==
    <<"#", "#", " ", "E", "x", "a", "m", "p", "l", "e", " ", "C", "o", "d",
      "e", " ", "S", "n", "i", "p", "p", "e", "t", "\n">>

PieceCriteria ==
    <<"#", "#", " ", "A", "c", "c", "e", "p", "t", "a", "n", "c", "e", " ",
      "C", "r", "i", "t", "e", "r", "i", "a", "\n">>

PieceCheckbox ==
    <<"-", " ", "[", " ", "]", " ", "A", "d", "d", " ", "t", "e", "s", "t",
      "s", "\n">>

PieceNewline ==
    <<"\n">>

PieceHash ==
    <<"#">>

PieceFiles ==
    <<"#", "#", " ", "F", "i", "l", "e", "s", " ", "t", "o", " ", "M", "o",
      "d", "i", "f", "y", "\n">>

\* a line with two backtick-delimited tokens
PieceFileLine ==
    <<"-", " ", "~", "a", ".", "p", "y", "~", " ", "a", "n", "d", " ", "~",
      "b", ".", "p", "y", "~", "\n">>

\* a line with one backtick and no token
PieceOpenTick ==
    <<"-", " ", "~", "x", "\n">>

PieceTitle ==
    <<"#", " ", "T", "i", "t", "l", "e", "\n">>

\* a title line with nothing after the marker
PieceBlankTitle ==
    <<"#", " ", "\n">>

PieceText ==
    <<"t", "e", "x", "t", "\n">>

\* one backtick
PieceTick ==
    <<"~">>

\* pieces that make, break and join fenced blocks
FencePieces ==
    {PieceTick, PieceFence, PieceNewline, PieceExample}

\* pieces of model output that the sanitizer acts on
SanitizerPieces ==
    {PieceLabelHead, PieceLabelTail, PieceFence, PieceExample,
     PieceCriteria, PieceCheckbox, PieceNewline, PieceHash}

\* a checkbox line with nothing after the marker
PieceEmptyCheckbox ==
    <<"-", " ", "[", " ", "]", " ", "\n">>

\* an indented checkbox line with spaces around its text
PieceIndentedCheckbox ==
    <<" ", " ", "-", " ", "[", " ", "]", " ", " ", "F", "i", "x", " ", "b",
      "u", "g", " ", "\n">>

\* pieces of markdown that the parser acts on
ParserPieces ==
    {PieceTitle, PieceBlankTitle, PieceCriteria, PieceCheckbox,
     PieceFiles, PieceFileLine, PieceOpenTick, PieceText,
     PieceEmptyCheckbox, PieceIndentedCheckbox}

MaxPieces == 3

\* every concatenation of at most n of the given pieces
RECURSIVE Texts(_, _)
Texts(pieces, n) ==
    IF n = 0 THEN {<<>>}
    ELSE Texts(pieces, n - 1) \cup {t \o p : t \in Texts(pieces, n - 1), p \in pieces}

----------------------------------------------------------------------------
\* The sanitizer and the parser as operations on one text

TicketStart ==
    /\ cleaned = None
    /\ recleaned = None
    /\ parsed = None
    /\ tstep = "input"

\* cleaned = self._sanitize_ticket(md)
SanitizeTicket ==
    /\ tstep = "input"
    /\ cleaned' = _sanitize_ticket(md)
    /\ tstep' = "sanitized"
    /\ UNCHANGED <<md, recleaned, parsed, runVars, searchVars, concVars, callVars>>

\* the sanitizer run on its own output
SanitizeAgain ==
    /\ tstep = "sanitized"
    /\ recleaned' = _sanitize_ticket(cleaned)
    /\ tstep' = "resanitized"
    /\ UNCHANGED <<md, cleaned, parsed, runVars, searchVars, concVars, callVars>>

\* self._parse_generated_ticket(md), on a text as it comes
ParseTicket ==
    /\ tstep = "input"
    /\ parsed' = _parse_generated_ticket(md)
    /\ tstep' = "parsed"
    /\ UNCHANGED <<md, cleaned, recleaned, runVars, searchVars, concVars, callVars>>

\* self._parse_generated_ticket(cleaned), as _generate_ticket_with_llm calls it
ParseCleaned ==
    /\ tstep = "sanitized"
    /\ parsed' = _parse_generated_ticket(cleaned)
    /\ tstep' = "parsed_cleaned"
    /\ UNCHANGED <<md, cleaned, recleaned, runVars, searchVars, concVars, callVars>>

SanitizeInit ==
    /\ md \in Texts(SanitizerPieces, MaxPieces)
    /\ TicketStart
    /\ RunIdle
    /\ SearchIdle
    /\ ConcIdle
    /\ CallIdle

SanitizeNext ==
    \/ SanitizeTicket
    \/ SanitizeAgain
    \/ ParseCleaned

SpecSanitize == SanitizeInit /\ [][SanitizeNext]_vars

\* the sanitizer on longer texts of fewer pieces
FenceDepth == MaxPieces + 2

FenceInit ==
    /\ md \in Texts(FencePieces, FenceDepth)
    /\ TicketStart
    /\ RunIdle
    /\ SearchIdle
    /\ ConcIdle
    /\ CallIdle

SpecFence == FenceInit /\ [][SanitizeNext]_vars

ParseInit ==
    /\ md \in Texts(ParserPieces, MaxPieces)
    /\ TicketStart
    /\ RunIdle
    /\ SearchIdle
    /\ ConcIdle
    /\ CallIdle

ParseNext == ParseTicket

SpecParse == ParseInit /\ [][ParseNext]_vars

----------------------------------------------------------------------------
\* CocoIndexService.index_repository

EmbeddingsPerFile == 5

MaxFiles == 2

\* what the environment does to one indexing call: whether cocoindex.init
\* succeeds, whether git clone succeeds, how many files match the patterns
IndexEnvironments ==
    [init_ok : BOOLEAN, clone_ok : BOOLEAN, files : 0..MaxFiles]

\* clone_repository raises: the ValueError for a URL without "github.com",
\* else the error of the failed clone; [raises |-> FALSE] when it returns
CloneOutcome(url, env) ==
    IF ~Contains(url, GitHubHost) THEN [raises |-> TRUE, message |-> ErrOnlyGitHub]
    ELSE IF ~env.clone_ok THEN [raises |-> TRUE, message |-> ErrGitClone]
    ELSE [raises |-> FALSE]

index_repository(url, env) ==
    IF ~env.init_ok
    THEN [success |-> FALSE, error |-> ErrInitFailed, repository |-> url]
    ELSE IF CloneOutcome(url, env).raises
    THEN [success |-> FALSE, error |-> CloneOutcome(url, env).message,
          repository |-> url]
    ELSE [success |-> TRUE, repository |-> url, indexed_files |-> env.files,
          embeddings_generated |-> EmbeddingsPerFile * env.files]

----------------------------------------------------------------------------
\* IntelligentTicketGenerator.generate_intelligent_ticket, one run

Requests == {RequestAddLogin, RequestFixBug, RequestButton, RequestEmpty}

RepoUrls == {RepoGitHub, RepoOther}

\* what the generation call may do
Responses ==
    {[kind |-> "raises", message |-> ErrTimeout],
     [kind |-> "raises", message |-> ErrRateLimit],
     [kind |-> "none"],
     [kind |-> "content", content |-> <<>>],
     [kind |-> "content", content |-> PieceText],
     [kind |-> "content",
      content |-> PieceTitle \o PieceCriteria \o PieceCheckbox],
     [kind |-> "content",
      content |-> PieceLabelHead \o PieceLabelTail \o PieceTitle \o PieceFence],
     [kind |-> "content",
      content |-> PieceNewline \o PieceFiles \o PieceFileLine \o PieceNewline]}

Init ==
    /\ pc = "INDEXING"
    /\ trace = <<>>
    /\ user_request \in Requests
    /\ repo_url \in RepoUrls
    /\ indexing_result = None
    /\ request_analysis = None
    /\ relevant_code = NotRanked
    /\ project_context = None
    /\ contextual_prompt = None
    /\ response = None
    /\ envelope = None
    /\ TicketIdle
    /\ SearchIdle
    /\ ConcIdle
    /\ CallIdle

\* the failure dictionary without its "ticket" entry
FailureEnvelopeNoTicket(error) == [success |-> FALSE, error |-> error]

\* the dictionary of lines 32-36
FailureEnvelope(error) == [success |-> FALSE, error |-> error, ticket |-> None]

\* the indexing step that hands the error text on as it is
IndexVerbatim ==
    /\ pc = "INDEXING"
    /\ \E env \in IndexEnvironments :
        LET result == index_repository(repo_url, env)
        IN  /\ indexing_result' = result
            /\ IF ~result.success
               THEN /\ envelope' = FailureEnvelope(result.error)
                    /\ pc' = "FAILED"
               ELSE /\ envelope' = envelope
                    /\ pc' = "ANALYZING"
    /\ trace' = Append(trace, "INDEXING")
    /\ UNCHANGED <<user_request, repo_url, request_analysis, relevant_code,
                   project_context, contextual_prompt, response,
                   ticketVars, searchVars, concVars, callVars>>

\* the indexing step without the early return of lines 31-36: the run goes on
\* to the analysis whatever the indexing reported
IndexFallsThrough ==
    /\ pc = "INDEXING"
    /\ \E env \in IndexEnvironments :
        indexing_result' = index_repository(repo_url, env)
    /\ pc' = "ANALYZING"
    /\ trace' = Append(trace, "INDEXING")
    /\ UNCHANGED <<user_request, repo_url, request_analysis, relevant_code,
                   project_context, contextual_prompt, response, envelope,
                   ticketVars, searchVars, concVars, callVars>>

\* lines 29-38: the indexing call returns; a failure ends the run
Index ==
    /\ pc = "INDEXING"
    /\ \E env \in IndexEnvironments :
        LET result == index_repository(repo_url, env)
        IN  /\ indexing_result' = result
            /\ IF ~result.success
               THEN /\ envelope' = FailureEnvelope(IndexErrorPrefix \o result.error)
                    /\ pc' = "FAILED"
               ELSE /\ envelope' = envelope
                    /\ pc' = "ANALYZING"
    /\ trace' = Append(trace, "INDEXING")
    /\ UNCHANGED <<user_request, repo_url, request_analysis, relevant_code,
                   project_context, contextual_prompt, response,
                   ticketVars, searchVars, concVars, callVars>>

\* the analysis step that is taken again and again
AnalyzeStaysPut ==
    /\ pc = "ANALYZING"
    /\ request_analysis' = analyze_user_request(user_request)
    /\ pc' = "ANALYZING"
    /\ trace' = Append(trace, "ANALYZING")
    /\ UNCHANGED <<user_request, repo_url, indexing_result, relevant_code,
                   project_context, contextual_prompt, response, envelope,
                   ticketVars, searchVars, concVars, callVars>>

\* lines 42-43
Analyze ==
    /\ pc = "ANALYZING"
    /\ request_analysis' = analyze_user_request(user_request)
    /\ pc' = "RANKING"
    /\ trace' = Append(trace, "ANALYZING")
    /\ UNCHANGED <<user_request, repo_url, indexing_result, relevant_code,
                   project_context, contextual_prompt, response, envelope,
                   ticketVars, searchVars, concVars, callVars>>

DefaultTopK == 15

\* the ranking step that gives up the run when nothing relevant is found
RankAbortsWhenEmpty ==
    /\ pc = "RANKING"
    /\ LET found == search_relevant_code(user_request, _get_placeholder_embeddings,
                                         DefaultTopK)
       IN  /\ relevant_code' = found
           /\ IF found = <<>>
              THEN /\ envelope' = FailureEnvelope(ErrListIndex)
                   /\ pc' = "FAILED"
              ELSE /\ envelope' = envelope
                   /\ pc' = "CONTEXT_BUILDING"
    /\ trace' = Append(trace, "RANKING")
    /\ UNCHANGED <<user_request, repo_url, indexing_result, request_analysis,
                   project_context, contextual_prompt, response,
                   ticketVars, searchVars, concVars, callVars>>

\* lines 48-50
Rank ==
    /\ pc = "RANKING"
    /\ relevant_code' =
           search_relevant_code(user_request, _get_placeholder_embeddings, DefaultTopK)
    /\ pc' = "CONTEXT_BUILDING"
    /\ trace' = Append(trace, "RANKING")
    /\ UNCHANGED <<user_request, repo_url, indexing_result, request_analysis,
                   project_context, contextual_prompt, response, envelope,
                   ticketVars, searchVars, concVars, callVars>>

\* lines 54-56
BuildContext ==
    /\ pc = "CONTEXT_BUILDING"
    /\ project_context' = build_project_context(relevant_code, _get_placeholder_metadata)
    /\ pc' = "PROMPTING"
    /\ trace' = Append(trace, "CONTEXT_BUILDING")
    /\ UNCHANGED <<user_request, repo_url, indexing_result, request_analysis,
                   relevant_code, contextual_prompt, response, envelope,
                   ticketVars, searchVars, concVars, callVars>>

\* lines 60-63
ComposePrompt ==
    /\ pc = "PROMPTING"
    /\ contextual_prompt' =
           generate_contextual_prompt(user_request, project_context, request_analysis)
    /\ pc' = "SYNTHESIZING"
    /\ trace' = Append(trace, "PROMPTING")
    /\ UNCHANGED <<user_request, repo_url, indexing_result, request_analysis,
                   relevant_code, project_context, response, envelope,
                   ticketVars, searchVars, concVars, callVars>>

\* the dictionary of lines 70-84, from the locals of the run that returns it
SuccessEnvelopeOf(ticket, indexing, analysis, found, context) ==
    [success |-> TRUE,
     ticket |-> ticket,
     context |->
        [indexing_result |-> indexing,
         request_analysis |-> analysis,
         relevant_code_count |-> Len(found),
         project_context |->
            [languages |-> Keys(context.technology_stack.languages),
             frameworks |-> Keys(context.technology_stack.frameworks),
             patterns |-> context.architectural_patterns,
             best_practices |-> context.best_practices]]]

SuccessEnvelope(ticket) ==
    SuccessEnvelopeOf(ticket, indexing_result, request_analysis, relevant_code,
                      project_context)

\* lines 67-84: the generation call ends, the ticket is built and returned
Synthesize ==
    /\ pc = "SYNTHESIZING"
    /\ \E r \in Responses :
        /\ response' = r
        /\ envelope' = SuccessEnvelope(
               _generate_ticket_with_llm(contextual_prompt, user_request, r))
    /\ pc' = "DONE"
    /\ trace' = Append(trace, "SYNTHESIZING")
    /\ UNCHANGED <<user_request, repo_url, indexing_result, request_analysis,
                   relevant_code, project_context, contextual_prompt,
                   ticketVars, searchVars, concVars, callVars>>

Next ==
    \/ Index
    \/ Analyze
    \/ Rank
    \/ BuildContext
    \/ ComposePrompt
    \/ Synthesize

Spec == Init /\ [][Next]_vars

\* the stages in which a run is neither done nor failed
IntermediateStages ==
    {"INDEXING", "ANALYZING", "RANKING", "CONTEXT_BUILDING", "PROMPTING",
     "SYNTHESIZING"}

\* a step of a run that has not ended: the run leaves the stage it is at
LeaveStage ==
    /\ pc \in IntermediateStages
    /\ pc' \in IntermediateStages \cup {"DONE", "FAILED"}
    /\ pc' # pc

\* A run is a coroutine of straight-line code: the event loop resumes it
\* whenever the call it awaits has returned or raised, so a run that has not
\* ended takes its next step.  Every step of Next leaves a stage, and one is
\* possible at every intermediate stage.
SpecLive == Init /\ [][Next]_vars /\ WF_pc(LeaveStage)

----------------------------------------------------------------------------
\* The request analysis on requests made of up to MaxPieces words

WordAdd ==
    <<"a", "d", "d", " ">>

WordFix ==
    <<"F", "i", "x", " ">>

WordRefactor ==
    <<"r", "e", "f", "a", "c", "t", "o", "r", " ">>

WordAuth ==
    <<"a", "u", "t", "h", " ">>

WordSpeed ==
    <<"s", "p", "e", "e", "d", " ">>

WordThe ==
    <<"t", "h", "e", " ">>

WordError ==
    <<"e", "r", "r", "o", "r">>

WordImprove ==
    <<"I", "M", "P", "R", "O", "V", "E", " ">>

RequestWords ==
    {WordAdd, WordFix, WordRefactor, WordAuth, WordSpeed, WordThe, WordError,
     WordImprove}

\* a run that has indexed its repository and is about to analyse its request
AnalyzeInit ==
    /\ pc = "ANALYZING"
    /\ trace = <<"INDEXING">>
    /\ user_request \in Texts(RequestWords, MaxPieces)
    /\ repo_url = RepoGitHub
    /\ indexing_result =
           index_repository(RepoGitHub, [init_ok |-> TRUE, clone_ok |-> TRUE, files |-> 1])
    /\ request_analysis = None
    /\ relevant_code = NotRanked
    /\ project_context = None
    /\ contextual_prompt = None
    /\ response = None
    /\ envelope = None
    /\ TicketIdle
    /\ SearchIdle
    /\ ConcIdle
    /\ CallIdle

AnalyzeNext == Analyze

SpecAnalyze == AnalyzeInit /\ [][AnalyzeNext]_vars

----------------------------------------------------------------------------
\* One call of search_relevant_code on a candidate list

LangPython ==
    <<"p", "y", "t", "h", "o", "n">>

FileLogin ==
    <<"s", "r", "c", "/", "l", "o", "g", "i", "n", ".", "p", "y">>

FileNotes ==
    <<"n", "o", "t", "e", "s", ".", "m", "d">>

FileBug ==
    <<"b", "u", "g", ".", "p", "y">>

CodeFixLogin ==
    <<"d", "e", "f", " ", "f", "i", "x", "_", "l", "o", "g", "i", "n", "(",
      ")", ":", " ", "p", "a", "s", "s">>

CodeLogin ==
    <<"l", "o", "g", "i", "n">>

\* the term "login" three times
CodeLoginThrice ==
    <<"l", "o", "g", "i", "n", " ", "l", "o", "g", "i", "n", " ", "l", "o",
      "g", "i", "n">>

\* one term, written twice
QueryLoginTwice ==
    <<"l", "o", "g", "i", "n", " ", "L", "O", "G", "I", "N">>

CodeNone ==
    <<>>

QueryFixLogin ==
    <<"f", "i", "x", " ", "l", "o", "g", "i", "n">>

QueryLogin ==
    <<"L", "o", "g", "i", "n", "!">>

QueryNoTerm ==
    <<"?", "!">>

QueryBug ==
    <<"b", "u", "g", " ", "i", "n", " ", "l", "o", "g", "i", "n", " ", "f",
      "o", "r", "m">>

MaxCandidates == 3

MaxTopK == 3

Candidates ==
    {[filename |-> FileLogin, code |-> CodeFixLogin, pad |-> 0, language |-> LangPython],
     [filename |-> FileNotes, code |-> CodeNone, pad |-> 2 * LengthCap,
      language |-> LangPython],
     [filename |-> FileBug, code |-> CodeLogin, pad |-> LengthCap,
      language |-> LangPython],
     [filename |-> FileNotes, code |-> CodeLoginThrice, pad |-> LengthCap \div 2,
      language |-> LangTypescript],
     [filename |-> FileLogin, code |-> CodeLogin, pad |-> LengthCap,
      language |-> LangTypescript]}

Queries == {QueryFixLogin, QueryLogin, QueryNoTerm, QueryBug, QueryLoginTwice}

\* every list of at most n candidates
RECURSIVE CandidateLists(_)
CandidateLists(n) ==
    IF n = 0 THEN {<<>>}
    ELSE CandidateLists(n - 1)
             \cup {Append(l, c) : l \in CandidateLists(n - 1), c \in Candidates}

SearchInit ==
    /\ query \in Queries
    /\ code_embeddings \in CandidateLists(MaxCandidates)
    /\ top_k \in 0..MaxTopK
    /\ code_chunks = None
    /\ sstep = "input"
    /\ embedding_model = None
    /\ RunIdle
    /\ TicketIdle
    /\ ConcIdle
    /\ CallIdle

\* code_chunks = await search_relevant_code(query, code_embeddings, top_k)
Search ==
    /\ sstep = "input"
    /\ code_chunks' = search_relevant_code(query, code_embeddings, top_k)
    /\ sstep' = "searched"
    /\ UNCHANGED <<query, code_embeddings, top_k, embedding_model, runVars,
                   ticketVars, concVars, callVars>>

SearchNext == Search

SpecSearch == SearchInit /\ [][SearchNext]_vars

----------------------------------------------------------------------------
\* One call of search_relevant_code on a service with or without an embedding
\* model.  The constructor leaves self.embedding_model None (line 36); a
\* service with a model has the attribute assigned by its owner.

\* the model's encode returns a vector or raises
EmbeddingModels == {[encode_ok |-> TRUE], [encode_ok |-> FALSE]}

\* a chunk record of this call has one more field, embedding: None when the
\* chunk has no "embedding" key, else the cosine similarity of its vector
\* with the vector of the query, in tenths
SemanticCandidates ==
    {[filename |-> FileLogin, code |-> CodeLogin, pad |-> 0,
      language |-> LangPython, embedding |-> [num |-> 9, den |-> 10]],
     [filename |-> FileBug, code |-> CodeLogin, pad |-> 0,
      language |-> LangPython, embedding |-> [num |-> 2, den |-> 10]],
     [filename |-> FileNotes, code |-> CodeLogin, pad |-> LengthCap,
      language |-> LangPython, embedding |-> None]}

RECURSIVE SemanticCandidateLists(_)
SemanticCandidateLists(n) ==
    IF n = 0 THEN {<<>>}
    ELSE SemanticCandidateLists(n - 1)
             \cup {Append(l, c) : l \in SemanticCandidateLists(n - 1),
                                  c \in SemanticCandidates}

\* lines 132-136: the (similarity, chunk) pairs of the chunks with an
\* "embedding" key
SemanticSimilarities(candidates) ==
    LET with == SelectSeq(candidates, LAMBDA c : c.embedding # None)
    IN  [k \in 1..Len(with) |-> [score |-> with[k].embedding, chunk |-> with[k]]]

\* lines 129-164, the body of the try: [raises |-> TRUE] when encode raises
SearchBody(model, q, candidates, k) ==
    IF model # None
    THEN IF ~model.encode_ok THEN [raises |-> TRUE]
         ELSE [raises |-> FALSE,
               value |-> ToCodeChunks(Prefix(SortDesc(SemanticSimilarities(candidates)), k))]
    ELSE [raises |-> FALSE, value |-> search_relevant_code(q, candidates, k)]

\* lines 128-168: the except clause returns [] for whatever the body raises
search_with_model(model, q, candidates, k) ==
    IF SearchBody(model, q, candidates, k).raises
    THEN [raises |-> FALSE, value |-> <<>>]
    ELSE SearchBody(model, q, candidates, k)

ModeInit ==
    /\ query \in {QueryLogin, QueryNoTerm}
    /\ code_embeddings \in SemanticCandidateLists(MaxCandidates)
    /\ top_k \in 0..MaxTopK
    /\ code_chunks = None
    /\ sstep = "input"
    /\ embedding_model \in EmbeddingModels \cup {None}
    /\ RunIdle
    /\ TicketIdle
    /\ ConcIdle
    /\ CallIdle

\* outcome = await search_relevant_code(query, code_embeddings, top_k)
SearchWithModel ==
    /\ sstep = "input"
    /\ code_chunks' = search_with_model(embedding_model, query, code_embeddings, top_k)
    /\ sstep' = "searched"
    /\ UNCHANGED <<query, code_embeddings, top_k, embedding_model, runVars,
                   ticketVars, concVars, callVars>>

ModeNext == SearchWithModel

SpecMode == ModeInit /\ [][ModeNext]_vars

----------------------------------------------------------------------------
\* The stages that follow the analysis, applied to a candidate list given as
\* input (generate_intelligent_ticket passes its placeholder list, line 48)

FileUserModel ==
    <<"M", "o", "d", "e", "l", "s", "/", "U", "s", "e", "r", ".", "p", "y">>

FileUserView ==
    <<"v", "i", "e", "w", "s", "/", "u", "s", "e", "r", ".", "p", "y">>

FileUserController ==
    <<"U", "s", "e", "r", "C", "o", "n", "t", "r", "o", "l", "l", "e", "r",
      ".", "t", "s">>

FileUserService ==
    <<"s", "r", "c", "/", "u", "s", "e", "r", "_", "s", "e", "r", "v", "i",
      "c", "e", ".", "p", "y">>

CodeGetUser ==
    <<"d", "e", "f", " ", "g", "e", "t", "_", "u", "s", "e", "r", "(", ")",
      ":", " ", "p", "a", "s", "s">>

CodeUser ==
    <<"u", "s", "e", "r">>

CodeImportUser ==
    <<"i", "m", "p", "o", "r", "t", " ", "u", "s", "e", "r">>

RequestUser ==
    <<"u", "s", "e", "r">>

RequestFixUser ==
    <<"f", "i", "x", " ", "u", "s", "e", "r">>

RequestNoTerm ==
    <<"?">>

ContextCandidates ==
    {[filename |-> FileUserModel, code |-> CodeGetUser, pad |-> 0, language |-> LangPython],
     [filename |-> FileUserView, code |-> CodeUser, pad |-> 0, language |-> LangPython],
     [filename |-> FileUserController, code |-> CodeImportUser, pad |-> 0,
      language |-> LangTypescript],
     [filename |-> FileUserService, code |-> CodeUser, pad |-> 0, language |-> LangPython],
     [filename |-> FileNotes, code |-> CodeNone, pad |-> 0, language |-> LangPython]}

\* every list of at most n of these candidates
RECURSIVE ContextCandidateLists(_)
ContextCandidateLists(n) ==
    IF n = 0 THEN {<<>>}
    ELSE ContextCandidateLists(n - 1)
             \cup {Append(l, c) : l \in ContextCandidateLists(n - 1),
                                  c \in ContextCandidates}

PipelineRequests == {RequestUser, RequestFixUser, RequestNoTerm}

\* a run that has analysed its request and is about to rank the candidates
PipelineInit ==
    /\ pc = "RANKING"
    /\ trace = <<"INDEXING", "ANALYZING">>
    /\ user_request \in PipelineRequests
    /\ repo_url = RepoGitHub
    /\ indexing_result =
           index_repository(RepoGitHub, [init_ok |-> TRUE, clone_ok |-> TRUE, files |-> 1])
    /\ request_analysis = analyze_user_request(user_request)
    /\ relevant_code = NotRanked
    /\ project_context = None
    /\ contextual_prompt = None
    /\ response = None
    /\ envelope = None
    /\ query = <<>>
    /\ code_embeddings \in ContextCandidateLists(MaxCandidates)
    /\ top_k = 0
    /\ code_chunks = None
    /\ sstep = "idle"
    /\ embedding_model = None
    /\ TicketIdle
    /\ ConcIdle
    /\ CallIdle

\* line 49, on the candidate list of this run
RankCandidates ==
    /\ pc = "RANKING"
    /\ relevant_code' = search_relevant_code(user_request, code_embeddings, DefaultTopK)
    /\ pc' = "CONTEXT_BUILDING"
    /\ trace' = Append(trace, "RANKING")
    /\ UNCHANGED <<user_request, repo_url, indexing_result, request_analysis,
                   project_context, contextual_prompt, response, envelope,
                   ticketVars, searchVars, concVars, callVars>>

PipelineNext ==
    \/ RankCandidates
    \/ BuildContext
    \/ ComposePrompt
    \/ Synthesize

SpecPipeline == PipelineInit /\ [][PipelineNext]_vars

----------------------------------------------------------------------------
\* Two runs of generate_intelligent_ticket on one event loop.  The router
\* builds a new IntelligentTicketGenerator for every request, so a run owns
\* its generator, its services and its locals; the loop thread runs one
\* coroutine at a time, and a run leaves it only where it awaits the worker
\* thread that makes the generation call.

\* two requests in flight at the same time
Runs == {1, 2}

\* the requests of the runs differ from one run to the next, so that a value
\* taken from another run shows
RequestFor(r) == IF r % 2 = 1 THEN RequestAddLogin ELSE RequestFixBug

ConcEnvironments ==
    {[init_ok |-> TRUE, clone_ok |-> TRUE, files |-> 1],
     [init_ok |-> TRUE, clone_ok |-> FALSE, files |-> 0]}

ConcResponses ==
    {[kind |-> "raises", message |-> ErrTimeout],
     [kind |-> "content",
      content |-> PieceTitle \o PieceCriteria \o PieceCheckbox]}

\* the frame of a coroutine that has not started
NewFrame(request) ==
    [pc |-> "NEW",
     user_request |-> request,
     repo_url |-> RepoGitHub,
     env |-> None,
     indexing_result |-> None,
     request_analysis |-> None,
     relevant_code |-> None,
     project_context |-> None,
     contextual_prompt |-> None,
     response |-> None,
     envelope |-> None,
     overlapped |-> {}]

ConcInit ==
    /\ loop = 0
    /\ frames = [r \in Runs |-> NewFrame(RequestFor(r))]
    /\ RunIdle
    /\ TicketIdle
    /\ SearchIdle
    /\ CallIdle

\* the runs whose generation call is being made by a worker thread
Waiting == IF frames = <<>> THEN {} ELSE {r \in Runs : frames[r].pc = "GENERATING"}

\* the user_request parameter of a run, as every stage of that run reads it
RequestOfFirst(r) == frames[1].user_request

RequestOf(r) == frames[r].user_request

\* routers/intelligent_tickets.py lines 33-38: the loop starts the coroutine of
\* a request when it runs nothing else; the run reaches the indexing call
StartRun(r) ==
    /\ loop = 0
    /\ frames[r].pc = "NEW"
    /\ frames' = [frames EXCEPT ![r].pc = "INDEXING", ![r].overlapped = Waiting]
    /\ loop' = r
    /\ UNCHANGED <<runVars, ticketVars, searchVars, callVars>>

\* line 29, the await of the indexing collaborator: a collaborator that
\* suspends gives the loop thread to the other coroutines.  (The indexing
\* service of this repository never does, its clone is a blocking
\* subprocess.run: the run then goes from StartRun to ConcIndex directly.)
SuspendAtIndexing(r) ==
    /\ loop = r
    /\ frames[r].pc = "INDEXING"
    /\ loop' = 0
    /\ UNCHANGED <<frames, runVars, ticketVars, searchVars, callVars>>

\* lines 29-38: the indexing call returns to the run, which holds the loop
\* thread or takes it when it is free; a failure ends the run
ConcIndex(r) ==
    /\ loop \in {0, r}
    /\ frames[r].pc = "INDEXING"
    /\ \E env \in ConcEnvironments :
        LET result == index_repository(frames[r].repo_url, env)
        IN  IF ~result.success
            THEN /\ frames' = [frames EXCEPT
                        ![r].env = env,
                        ![r].indexing_result = result,
                        ![r].envelope =
                            FailureEnvelope(IndexErrorPrefix \o result.error),
                        ![r].pc = "FAILED"]
                 /\ loop' = 0
            ELSE /\ frames' = [frames EXCEPT
                        ![r].env = env,
                        ![r].indexing_result = result,
                        ![r].pc = "ANALYZING"]
                 /\ loop' = r
    /\ UNCHANGED <<runVars, ticketVars, searchVars, callVars>>

\* lines 42-43
ConcAnalyze(r) ==
    /\ loop = r
    /\ frames[r].pc = "ANALYZING"
    /\ frames' = [frames EXCEPT
            ![r].request_analysis = analyze_user_request(RequestOf(r)),
            ![r].pc = "RANKING"]
    /\ UNCHANGED <<loop, runVars, ticketVars, searchVars, callVars>>

\* lines 48-50
ConcRank(r) ==
    /\ loop = r
    /\ frames[r].pc = "RANKING"
    /\ frames' = [frames EXCEPT
            ![r].relevant_code =
                search_relevant_code(RequestOf(r), _get_placeholder_embeddings,
                                     DefaultTopK),
            ![r].pc = "CONTEXT_BUILDING"]
    /\ UNCHANGED <<loop, runVars, ticketVars, searchVars, callVars>>

\* lines 54-56
ConcBuildContext(r) ==
    /\ loop = r
    /\ frames[r].pc = "CONTEXT_BUILDING"
    /\ frames' = [frames EXCEPT
            ![r].project_context =
                build_project_context(frames[r].relevant_code,
                                      _get_placeholder_metadata),
            ![r].pc = "PROMPTING"]
    /\ UNCHANGED <<loop, runVars, ticketVars, searchVars, callVars>>

\* lines 60-63
ConcComposePrompt(r) ==
    /\ loop = r
    /\ frames[r].pc = "PROMPTING"
    /\ frames' = [frames EXCEPT
            ![r].contextual_prompt =
                generate_contextual_prompt(RequestOf(r), frames[r].project_context,
                                           frames[r].request_analysis),
            ![r].pc = "SYNTHESIZING"]
    /\ UNCHANGED <<loop, runVars, ticketVars, searchVars, callVars>>

\* the generation call made by the coroutine itself, on the loop thread: the
\* run keeps the loop until the call returns
CallGenerationInline(r) ==
    /\ loop = r
    /\ frames[r].pc = "SYNTHESIZING"
    /\ frames' = [frames EXCEPT ![r].pc = "GENERATING"]
    /\ loop' = r
    /\ UNCHANGED <<runVars, ticketVars, searchVars, callVars>>

\* lines 67 and 141: asyncio.to_thread hands the call to a worker thread and
\* the coroutine is suspended, the loop thread is free
DispatchGeneration(r) ==
    /\ loop = r
    /\ frames[r].pc = "SYNTHESIZING"
    /\ frames' = [frames EXCEPT ![r].pc = "GENERATING"]
    /\ loop' = 0
    /\ UNCHANGED <<runVars, ticketVars, searchVars, callVars>>

\* the worker thread: the call of lines 142-161 returns or raises
GenerationEnds(r) ==
    /\ frames[r].pc = "GENERATING"
    /\ \E reply \in ConcResponses :
        frames' = [frames EXCEPT ![r].response = reply, ![r].pc = "GENERATED"]
    /\ UNCHANGED <<loop, runVars, ticketVars, searchVars, callVars>>

\* lines 163-197 and 68-84: the loop resumes the coroutine when it runs nothing
\* else; the ticket is built and the run returns
Resume(r) ==
    /\ loop \in {0, r}
    /\ frames[r].pc = "GENERATED"
    /\ frames' = [frames EXCEPT
            ![r].envelope =
                SuccessEnvelopeOf(
                    _generate_ticket_with_llm(frames[r].contextual_prompt,
                                              RequestOf(r), frames[r].response),
                    frames[r].indexing_result, frames[r].request_analysis,
                    frames[r].relevant_code, frames[r].project_context),
            ![r].pc = "DONE"]
    /\ loop' = 0
    /\ UNCHANGED <<runVars, ticketVars, searchVars, callVars>>

ConcNext ==
    \E r \in Runs :
        \/ StartRun(r)
        \/ SuspendAtIndexing(r)
        \/ ConcIndex(r)
        \/ ConcAnalyze(r)
        \/ ConcRank(r)
        \/ ConcBuildContext(r)
        \/ ConcComposePrompt(r)
        \/ DispatchGeneration(r)
        \/ GenerationEnds(r)
        \/ Resume(r)

SpecConcurrent == ConcInit /\ [][ConcNext]_vars

----------------------------------------------------------------------------
\* One call of _extract_similar_implementations on a list of CodeChunk
\* objects, in any order and with any scores.

MaxChunks == 6

FileLibLogin ==
    <<"l", "i", "b", "/", "l", "o", "g", "i", "n", ".", "p", "y">>

ScoredChunk(filename, language, tenths) ==
    [filename |-> filename, code |-> CodeNone, pad |-> 0, language |-> language,
     score |-> [num |-> tenths, den |-> 10]]

\* six (language, basename) pairs above the threshold, one of them with two
\* chunks, and one chunk at the threshold
SimilarChunks ==
    <<ScoredChunk(FileLogin, LangPython, 8),
      ScoredChunk(FileLibLogin, LangPython, 9),
      ScoredChunk(FileLogin, LangTypescript, 8),
      ScoredChunk(FileBug, LangPython, 10),
      ScoredChunk(FileNotes, LangPython, 8),
      ScoredChunk(FileUserModel, LangPython, 9),
      ScoredChunk(FileUserView, LangPython, 8),
      ScoredChunk(FileUserService, LangPython, HighRelevance)>>

\* every list of at most n different places of SimilarChunks
RECURSIVE Selections(_)
Selections(n) ==
    IF n = 0 THEN {<<>>}
    ELSE LET shorter == Selections(n - 1)
         IN  shorter \cup
                 UNION {{Append(l, c) : c \in {d \in 1..Len(SimilarChunks) :
                                                 \A k \in 1..Len(l) : l[k] # d}} :
                        l \in {m \in shorter : Len(m) = n - 1}}

\* the chunks at these places
ChunksAt(places) == [k \in 1..Len(places) |-> SimilarChunks[places[k]]]

SimilarInit ==
    /\ \E places \in Selections(MaxChunks) :
           call = [method |-> "_extract_similar_implementations",
                   code_chunks |-> ChunksAt(places)]
    /\ returned = None
    /\ RunIdle
    /\ TicketIdle
    /\ SearchIdle
    /\ ConcIdle

\* similar_implementations = self._extract_similar_implementations(code_chunks)
ExtractSimilar ==
    /\ call # None
    /\ call.method = "_extract_similar_implementations"
    /\ returned = None
    /\ returned' = [value |-> _extract_similar_implementations(call.code_chunks)]
    /\ UNCHANGED <<call, runVars, ticketVars, searchVars, concVars>>

SimilarNext == ExtractSimilar

SpecSimilar == SimilarInit /\ [][SimilarNext]_vars

----------------------------------------------------------------------------
\* One call of _analyze_dependencies on a chunk list and a project metadata
\* mapping.

MaxImportChunks == 2

CodeFromOsImportPath ==
    <<"f", "r", "o", "m", " ", "o", "s", " ", "i", "m", "p", "o", "r", "t", " ",
      "p", "a", "t", "h">>

CodeRequireFs ==
    <<"r", "e", "q", "u", "i", "r", "e", "(", "'", "f", "s", "'", ")">>

ImportCodes == <<CodeImportUser, CodeFromOsImportPath, CodeRequireFs, CodeUser>>

\* every list of at most n places of ImportCodes
RECURSIVE CodeSelections(_)
CodeSelections(n) ==
    IF n = 0 THEN {<<>>}
    ELSE CodeSelections(n - 1)
             \cup {Append(l, c) : l \in CodeSelections(n - 1),
                                  c \in 1..Len(ImportCodes)}

ImportChunksAt(places) ==
    [k \in 1..Len(places) |->
        [ScoredChunk(FileLogin, LangPython, 8) EXCEPT !.code = ImportCodes[places[k]]]]

\* the values a manifest member can have
Members ==
    {Missing, [kind |-> "null"], [kind |-> "array"], JsonObject(<<>>),
     JsonObject(<<DepReact>>), JsonObject(<<DepEslint, DepTailwind>>)}

\* no "package.json" key; a text that is no JSON; an array; an object
Metadata ==
    {[has_package_json |-> FALSE]}
        \cup {[has_package_json |-> TRUE, package_json |-> [kind |-> k]] :
                 k \in {"invalid", "array", "string"}}
        \cup {[has_package_json |-> TRUE, package_json |-> ManifestObject(d, v)] :
                 d \in Members, v \in Members}

DependenciesInit ==
    /\ \E places \in CodeSelections(MaxImportChunks), metadata \in Metadata :
           call = [method |-> "_analyze_dependencies",
                   code_chunks |-> ImportChunksAt(places),
                   project_metadata |-> metadata]
    /\ returned = None
    /\ RunIdle
    /\ TicketIdle
    /\ SearchIdle
    /\ ConcIdle

\* dependencies = self._analyze_dependencies(code_chunks, project_metadata)
AnalyzeDependencies ==
    /\ call # None
    /\ call.method = "_analyze_dependencies"
    /\ returned = None
    /\ returned' = [value |-> _analyze_dependencies(call.code_chunks,
                                                    call.project_metadata)]
    /\ UNCHANGED <<call, runVars, ticketVars, searchVars, concVars>>

DependenciesNext == AnalyzeDependencies

SpecDependencies == DependenciesInit /\ [][DependenciesNext]_vars

----------------------------------------------------------------------------
\* One call of _analyze_coding_conventions on a chunk list, and the
\* conventions part of the prompt built from its result.

MaxDeclarationChunks == 2

CodeDefSnake ==
    <<"d", "e", "f", " ", "g", "e", "t", "_", "u", "s", "e", "r", "(", ")",
      ":", " ", "p", "a", "s", "s">>

CodeDefPascal ==
    <<"d", "e", "f", " ", "G", "e", "t", "U", "s", "e", "r", "(", ")", ":",
      " ", "p", "a", "s", "s", "\n", "c", "l", "a", "s", "s", " ", "U", "s",
      "e", "r", ":", " ", "p", "a", "s", "s">>

CodeFunctionPascal ==
    <<"f", "u", "n", "c", "t", "i", "o", "n", " ", "R", "e", "n", "d", "e",
      "r", "(", ")", " ", "{", "}", "\n", "f", "u", "n", "c", "t", "i", "o",
      "n", " ", " ", "s", "h", "o", "w", "(", ")", " ", "{", "}">>

CodeConstPascal ==
    <<"c", "o", "n", "s", "t", " ", "A", "p", "p", " ", "=", " ", "1", ";",
      " ", "c", "o", "n", "s", "t", " ", "T", "o", "p", "=", " ", "2">>

CodeConstCamel ==
    <<"c", "o", "n", "s", "t", " ", "u", "s", "e", "r", "N", "a", "m", "e",
      " ", "=", "1", ";", "c", "o", "n", "s", "t", " ", "x", " ", "y", " ",
      "=", " ", "2">>

CodeDefMixed ==
    <<"d", "e", "f", " ", "g", "e", "t", "U", "s", "e", "r", "(", ")", ":",
      " ", "p", "a", "s", "s">>

DeclarationCodes ==
    <<CodeDefSnake, CodeDefPascal, CodeFunctionPascal, CodeConstPascal,
      CodeConstCamel, CodeDefMixed>>

\* every list of at most n places of DeclarationCodes
RECURSIVE DeclarationSelections(_)
DeclarationSelections(n) ==
    IF n = 0 THEN {<<>>}
    ELSE DeclarationSelections(n - 1)
             \cup {Append(l, c) : l \in DeclarationSelections(n - 1),
                                  c \in 1..Len(DeclarationCodes)}

DeclarationChunksAt(places) ==
    [k \in 1..Len(places) |->
        [ScoredChunk(FileLogin, LangPython, 8) EXCEPT !.code = DeclarationCodes[places[k]]]]

ConventionsInit ==
    /\ \E places \in DeclarationSelections(MaxDeclarationChunks) :
           call = [method |-> "_analyze_coding_conventions",
                   code_chunks |-> DeclarationChunksAt(places)]
    /\ returned = None
    /\ RunIdle
    /\ TicketIdle
    /\ SearchIdle
    /\ ConcIdle

\* coding_conventions = self._analyze_coding_conventions(code_chunks)
AnalyzeConventions ==
    /\ call # None
    /\ call.method = "_analyze_coding_conventions"
    /\ returned = None
    /\ returned' = [value |-> _analyze_coding_conventions(call.code_chunks)]
    /\ UNCHANGED <<call, runVars, ticketVars, searchVars, concVars>>

\* conventions_context = self._build_conventions_context(coding_conventions)
BuildConventionsContext ==
    /\ call # None
    /\ call.method = "_analyze_coding_conventions"
    /\ returned # None
    /\ DOMAIN returned = {"value"}
    /\ returned' = [value |-> returned.value,
                    context |-> _build_conventions_context(returned.value)]
    /\ UNCHANGED <<call, runVars, ticketVars, searchVars, concVars>>

ConventionsNext ==
    \/ AnalyzeConventions
    \/ BuildConventionsContext

SpecConventions == ConventionsInit /\ [][ConventionsNext]_vars

----------------------------------------------------------------------------
\* Properties

\* C1: every CodeChunk returned by search_relevant_code has a score strictly
\* greater than 0.3 and at most 1.0, and the returned list has at most top_k
\* elements, whatever the query, the candidates and top_k >= 0.
SearchScoresAboveThresholdAndAtMostTopK ==
    sstep = "searched" =>
        /\ Len(code_chunks) <= top_k
        /\ \A k \in 1..Len(code_chunks) :
            /\ Greater(code_chunks[k].score, [num |-> MinScore, den |-> 10])
            /\ AtMost(code_chunks[k].score, [num |-> 1, den |-> 1])

\* a search over more candidates than top_k that returns exactly top_k chunks,
\* the first of them with the full score
SearchFillsTopKWithFullScore ==
    /\ sstep = "searched"
    /\ top_k >= 1
    /\ Len(code_embeddings) > top_k
    /\ Len(code_chunks) = top_k
    /\ code_chunks[1].score.num = code_chunks[1].score.den

\* C2: sanitization is idempotent, the sanitizer applied to its own output
\* returns that output unchanged.
SanitizeIsIdempotent ==
    tstep = "resanitized" => recleaned = cleaned

\* C3: every run returns one of two dictionaries and nothing else: success
\* true with a ticket that is not None and a context, or success false with an
\* error text and ticket None; before the run ends nothing is returned.
EnvelopeHasOneOfTwoShapes ==
    /\ pc \in {"DONE", "FAILED"} =>
        \/ /\ DOMAIN envelope = {"success", "ticket", "context"}
           /\ envelope.success = TRUE
           /\ envelope.ticket # None
           /\ pc = "DONE"
        \/ /\ DOMAIN envelope = {"success", "error", "ticket"}
           /\ envelope.success = FALSE
           /\ envelope.ticket = None
           /\ Len(envelope.error) > 0
           /\ pc = "FAILED"
    /\ pc \notin {"DONE", "FAILED"} => envelope = None

\* a run on a URL that is not a GitHub URL has returned the failure dictionary
FailureEnvelopeReturned ==
    /\ pc = "FAILED"
    /\ repo_url = RepoOther
    /\ envelope = [success |-> FALSE,
                   error |-> IndexErrorPrefix \o ErrOnlyGitHub,
                   ticket |-> None]

\* the stages of a run, in the order of the code
StageOrder ==
    <<"INDEXING", "ANALYZING", "RANKING", "CONTEXT_BUILDING", "PROMPTING",
      "SYNTHESIZING">>

\* C4: a run ends with success false only when indexing reported failure; once
\* indexing has succeeded the run goes through ANALYZING, RANKING,
\* CONTEXT_BUILDING, PROMPTING and SYNTHESIZING in that order, each once, and
\* its end is DONE with success true.
FailureOnlyFromIndexingAndStagesInOrder ==
    /\ trace = SubSeq(StageOrder, 1, Len(trace))
    /\ (pc \in {"DONE", "FAILED"} /\ envelope.success = FALSE) =>
            (indexing_result.success = FALSE /\ trace = <<"INDEXING">>)
    /\ (pc # "INDEXING" /\ indexing_result.success) =>
        /\ pc # "FAILED"
        /\ Len(trace) <= Len(StageOrder)
        /\ pc = IF Len(trace) = Len(StageOrder) THEN "DONE"
                ELSE StageOrder[Len(trace) + 1]
    /\ pc = "DONE" =>
        /\ indexing_result.success
        /\ trace = StageOrder
        /\ envelope.success = TRUE

\* a run whose indexing succeeded has ended in DONE after all six stages
RunDoneAfterAllStages ==
    /\ pc = "DONE"
    /\ indexing_result.success
    /\ indexing_result.indexed_files > 0
    /\ trace = StageOrder
    /\ envelope.success = TRUE

\* C5: when index_repository returns success false the run returns at once
\* with success false, an error and ticket None, and none of request analysis,
\* ranking, context building, prompt composition and the generation call is
\* executed in that run.
IndexFailureReturnsImmediately ==
    (pc # "INDEXING" /\ indexing_result.success = FALSE) =>
        /\ pc = "FAILED"
        /\ trace = <<"INDEXING">>
        /\ envelope.success = FALSE
        /\ envelope.error = IndexErrorPrefix \o indexing_result.error
        /\ envelope.ticket = None
        /\ request_analysis = None
        /\ relevant_code = NotRanked
        /\ project_context = None
        /\ contextual_prompt = None
        /\ response = None
        /\ ~ENABLED Next

\* a run whose clone failed has returned after the indexing step alone
RunFailedAfterCloneError ==
    /\ pc = "FAILED"
    /\ repo_url = RepoGitHub
    /\ indexing_result.success = FALSE
    /\ indexing_result.error = ErrGitClone
    /\ trace = <<"INDEXING">>
    /\ request_analysis = None
    /\ response = None

\* C6: when the generation call raises, _generate_ticket_with_llm returns the
\* fixed error ticket (title "Error generating ticket", description containing
\* the message of the exception, no acceptance criteria, no files) and the run
\* still ends with success true carrying that ticket.
GenerationFailureGivesErrorTicket ==
    (pc = "DONE" /\ response.kind = "raises") =>
        /\ envelope.success = TRUE
        /\ envelope.ticket.title = ErrorTitle
        /\ Contains(envelope.ticket.description, response.message)
        /\ envelope.ticket.acceptance_criteria = <<>>
        /\ envelope.ticket.files_to_modify = <<>>

\* a run whose generation call timed out has ended with the error ticket
RunDoneWithErrorTicket ==
    /\ pc = "DONE"
    /\ response.kind = "raises"
    /\ response.message = ErrTimeout
    /\ envelope.success = TRUE
    /\ envelope.ticket.title = ErrorTitle
    /\ envelope.ticket.description = ErrorPrefix \o ErrTimeout

\* C7: every ticket in a success dictionary, from parsing or from the failure
\* path of the generation call, has the five fields title, description,
\* acceptance_criteria, files_to_modify and raw_markdown.
SuccessTicketHasAllFiveFields ==
    (pc = "DONE" /\ envelope.success = TRUE) =>
        DOMAIN envelope.ticket = TicketFields

\* the lines of the parsed text
ParsedLines == SplitLines(md)

\* C8: parsing is total: for every text, the empty one included,
\* _parse_generated_ticket raises nothing and returns the five fields, with
\* title "Generated Ticket" when no title line exists, no acceptance criteria
\* when the text has no criteria heading and no files when it has no files
\* heading.
ParsingIsTotalWithDefaults ==
    tstep = "parsed" =>
        /\ DOMAIN parsed = TicketFields
        /\ parsed.description = md
        /\ parsed.raw_markdown = md
        /\ (\A k \in 1..Len(ParsedLines) : ~StartsWith(ParsedLines[k], <<"#", " ">>))
                => parsed.title = DefaultTitle
        /\ (\A k \in 1..Len(ParsedLines) : Strip(ParsedLines[k]) # AcceptanceHeading)
                => parsed.acceptance_criteria = <<>>
        /\ (\A k \in 1..Len(ParsedLines) : Strip(ParsedLines[k]) # FilesHeading)
                => parsed.files_to_modify = <<>>

\* the empty text has been parsed into the ticket of defaults
EmptyTextParsedToDefaults ==
    /\ tstep = "parsed"
    /\ md = <<>>
    /\ parsed = [title |-> DefaultTitle,
                 description |-> <<>>,
                 acceptance_criteria |-> <<>>,
                 files_to_modify |-> <<>>,
                 raw_markdown |-> <<>>]

\* the indexes of the lines that begin with "# "
TitleLines == {k \in 1..Len(ParsedLines) : StartsWith(ParsedLines[k], <<"#", " ">>)}

\* C9: the title of every parsed ticket is not empty: it is the trimmed rest
\* of the first line that begins with "# ", and "Generated Ticket" when there
\* is no such line.
ParsedTitleIsNonEmpty ==
    tstep = "parsed" =>
        /\ parsed.title # <<>>
        /\ parsed.title =
             IF TitleLines = {} THEN DefaultTitle
             ELSE Strip(DropFirst(ParsedLines[Least(TitleLines)], 2))

\* the nine labels of the disallowed field lines
DisallowedLabels ==
    {disallowed_patterns[k].lit :
        k \in {j \in 1..Len(disallowed_patterns) :
                  disallowed_patterns[j].kind = "label"}}

\* C10: the output of _sanitize_ticket contains none of the nine bold labels
\* **Assigned To:**, **Due Date:**, **Tags:**, **Ticket ID:**, **Project:**,
\* **Component:**, **Priority:**, **Complexity:**, **Status:**.
SanitizedTextHasNoDisallowedLabel ==
    tstep = "sanitized" =>
        \A label \in DisallowedLabels : ~Contains(cleaned, label)

\* the keyword buckets in the order of their priority
IntentBuckets ==
    << [intent |-> "feature_implementation", words |-> FeatureWords],
       [intent |-> "bug_fix", words |-> BugWords],
       [intent |-> "refactoring", words |-> RefactorWords],
       [intent |-> "security_update", words |-> SecurityWords],
       [intent |-> "performance_optimization", words |-> PerformanceWords] >>

\* the buckets one of whose keywords occurs in the lowercased request
MatchingBuckets ==
    {b \in 1..Len(IntentBuckets) :
        \E w \in 1..Len(IntentBuckets[b].words) :
            Contains(LowerText(user_request), IntentBuckets[b].words[w])}

\* C11: the intent is the first bucket, in the order feature_implementation,
\* bug_fix, refactoring, security_update, performance_optimization, with a
\* keyword that is a substring of the lowercased request, and
\* general_implementation when no bucket matches; a request with a bug_fix and
\* a refactoring keyword and no feature keyword is bug_fix.
IntentIsFirstMatchingBucket ==
    pc = "RANKING" =>
        /\ request_analysis.intent =
              IF MatchingBuckets = {} THEN "general_implementation"
              ELSE IntentBuckets[Least(MatchingBuckets)].intent
        /\ ({2, 3} \subseteq MatchingBuckets /\ 1 \notin MatchingBuckets)
              => request_analysis.intent = "bug_fix"

\* a request with a refactoring keyword before a bug keyword, in capitals,
\* and no feature keyword has been classified as bug_fix
BugAndRefactorRequestClassified ==
    /\ pc = "RANKING"
    /\ user_request = WordImprove \o WordThe \o WordFix
    /\ MatchingBuckets = {2, 3}
    /\ request_analysis.intent = "bug_fix"

\* the stages at which the project context has been built
ContextBuilt == pc \in {"PROMPTING", "SYNTHESIZING", "DONE"}

\* one of the ranked chunks has a filename that holds the word, in any case
SomeFilenameHas(word) ==
    \E k \in 1..Len(relevant_code) :
        Contains(LowerText(relevant_code[k].filename), word)

\* the architectural patterns hold the label MVC
ReportsMVC ==
    \E k \in 1..Len(project_context.architectural_patterns) :
        project_context.architectural_patterns[k] = "MVC"

\* C12: _detect_architectural_patterns reports "MVC" if and only if each of
\* "model", "view" and "controller" occurs, in any case, in at least one chunk
\* filename; with only two of the three, MVC is not reported.
MVCIffModelViewAndController ==
    ContextBuilt =>
        (ReportsMVC <=>
            /\ SomeFilenameHas(WordModel)
            /\ SomeFilenameHas(WordView)
            /\ SomeFilenameHas(WordController))

\* MVC has been reported for three chunks that each bring one of the words
MVCReportedForThreeFiles ==
    /\ ContextBuilt
    /\ Len(relevant_code) = 3
    /\ {relevant_code[k].filename : k \in 1..3} =
           {FileUserModel, FileUserView, FileUserController}
    /\ ReportsMVC

NoExamplesPhrase ==
    <<"N", "o", " ", "s", "p", "e", "c", "i", "f", "i", "c", " ", "e", "x",
      "a", "m", "p", "l", "e", "s", " ", "a", "v", "a", "i", "l", "a", "b",
      "l", "e">>

\* C13: with an empty candidate list every later stage degrades instead of
\* failing: ranking returns an empty list, build_project_context returns no
\* languages, frameworks, libraries, patterns, similar implementations, best
\* practices and external dependencies, the prompt holds the placeholder
\* "No specific examples available", and the generation call is still made.
EmptyCandidatesDegrade ==
    code_embeddings = <<>> =>
        /\ pc \in {"RANKING", "CONTEXT_BUILDING", "PROMPTING", "SYNTHESIZING", "DONE"}
        /\ pc # "RANKING" => relevant_code = <<>>
        /\ ContextBuilt =>
            /\ project_context.technology_stack.languages = <<>>
            /\ project_context.technology_stack.frameworks = <<>>
            /\ project_context.technology_stack.libraries = <<>>
            /\ project_context.architectural_patterns = <<>>
            /\ project_context.similar_implementations = <<>>
            /\ project_context.best_practices = {}
            /\ project_context.dependencies.external = <<>>
        /\ pc \in {"SYNTHESIZING", "DONE"} =>
            Contains(contextual_prompt.examples_context.header, NoExamplesPhrase)
        /\ pc = "DONE" =>
            /\ response # None
            /\ envelope.success = TRUE
            /\ envelope.context.relevant_code_count = 0

\* a run over no candidate has made its generation call, which returned text
EmptyCandidatesRunDone ==
    /\ pc = "DONE"
    /\ code_embeddings = <<>>
    /\ relevant_code = <<>>
    /\ response.kind = "content"
    /\ response.content = PieceTitle \o PieceCriteria \o PieceCheckbox
    /\ envelope.success = TRUE

\* the stages a coroutine goes through on the loop thread
OnLoopStages ==
    {"INDEXING", "ANALYZING", "RANKING", "CONTEXT_BUILDING", "PROMPTING",
     "SYNTHESIZING"}

\* C14: a run that waits for its generation call never occupies the loop
\* thread: during the wait the loop thread is free, or it executes a stage of
\* another run, so a second run can go through all of its stages and return
\* its envelope before the first call completes
WaitingRunDoesNotBlockOthers ==
    \A r \in Waiting :
        /\ loop # r
        /\ loop # 0 => frames[loop].pc \in OnLoopStages

\* run 2 was started while run 1 was waiting for its generation call, went
\* through every stage and returned its envelope, and run 1 is still waiting
SecondRunDoneWhileFirstWaits ==
    /\ frames # <<>>
    /\ frames[1].pc = "GENERATING"
    /\ frames[2].pc = "DONE"
    /\ 1 \in frames[2].overlapped
    /\ frames[2].envelope.success
    /\ frames[2].response.kind = "content"

\* the envelope a run returns when it runs alone, with the request, the
\* indexing outcome and the generation reply that its frame records
AloneEnvelope(frame) ==
    LET request == frame.user_request
        indexing == index_repository(frame.repo_url, frame.env)
        analysis == analyze_user_request(request)
        found == search_relevant_code(request, _get_placeholder_embeddings,
                                      DefaultTopK)
        context == build_project_context(found, _get_placeholder_metadata)
        prompt == generate_contextual_prompt(request, context, analysis)
    IN  IF ~indexing.success
        THEN FailureEnvelope(IndexErrorPrefix \o indexing.error)
        ELSE SuccessEnvelopeOf(
                 _generate_ticket_with_llm(prompt, request, frame.response),
                 indexing, analysis, found, context)

Returned(frame) == frame.pc \in {"DONE", "FAILED"}

\* C15: whatever the interleaving of the runs, switching at the indexing
\* await and at the generation await, the envelope a run returns is the one
\* it returns alone with the same indexing outcome and generation reply, and
\* no step of another run changes it afterwards
ConcurrentRunsShareNoState ==
    [][\A r \in DOMAIN frames :
          /\ (~Returned(frames[r]) /\ Returned(frames'[r]))
                => frames'[r].envelope = AloneEnvelope(frames'[r])
          /\ Returned(frames[r]) => frames'[r] = frames[r]]_vars

\* two runs with different requests have both returned, with different
\* envelopes; run 1 was started while run 2 waited for its generation call
InterleavedRunsBothDone ==
    /\ frames # <<>>
    /\ frames[1].pc = "DONE"
    /\ frames[2].pc = "DONE"
    /\ frames[1].user_request # frames[2].user_request
    /\ frames[1].envelope # frames[2].envelope
    /\ 2 \in frames[1].overlapped

\* index of the first heading "## Example Code Snippet" of the input, 0 when
\* there is none
FirstExampleHeading ==
    LET starts == {k \in 1..Len(md) : ExampleHeadEnd(md, k) # 0}
    IN  IF starts = {} THEN 0 ELSE Least(starts)

\* index of the "\n" before the first "## " heading that follows the example
\* heading and is not an example heading itself, 0 when there is none
NextHeadingBreak ==
    IF FirstExampleHeading = 0 THEN 0
    ELSE LET breaks == {k \in ExampleHeadEnd(md, FirstExampleHeading)..Len(md) :
                           /\ MatchAt(md, k, <<"\n", "#", "#", " ">>)
                           /\ ExampleHeadEnd(md, k + 1) = 0}
         IN  IF breaks = {} THEN 0 ELSE Least(breaks)

\* the line of s that starts at index i
LineFrom(s, i) == SplitLines(DropFirst(s, i - 1))[1]

\* the lines of the sanitized text
CleanedLines == SplitLines(cleaned)

\* C16: when the input has a heading "## Example Code Snippet", the text from
\* that heading up to the next "## " heading is removed and that next heading
\* stays in the output as a "## " heading line; with no next heading,
\* everything from the example heading on is removed.
ExampleSectionRemovedNextHeadingKept ==
    (tstep = "sanitized" /\ FirstExampleHeading # 0) =>
        /\ ~Contains(LowerText(cleaned), LowerText(ExampleHeading))
        /\ NextHeadingBreak # 0 =>
            \E k \in 1..Len(CleanedLines) :
                CleanedLines[k] = Strip(LineFrom(md, NextHeadingBreak + 1))

\* s has a fenced block: three backticks closed by a later three backticks
HasFencedBlock(s) ==
    \E i \in 1..Len(s) : MatchAt(s, i, Fence) /\ FindFrom(s, i + 3, Fence) # 0

\* C17: for every input text the output of _sanitize_ticket contains no
\* fenced code block, no three backticks closed by a later three backticks.
SanitizedTextHasNoFencedBlock ==
    tstep = "sanitized" => ~HasFencedBlock(cleaned)

\* an input with two fenced blocks and a line with one backtick between them
\* was sanitized: the backtick is all that is left
TwoFencedBlocksRemoved ==
    /\ tstep = "sanitized"
    /\ md = PieceFence \o PieceNewline \o PieceTick \o PieceNewline \o PieceFence
    /\ HasFencedBlock(md)
    /\ cleaned = PieceTick

\* index of the first line whose stripped text is the heading, 0 when there
\* is none
SectionStart(heading) ==
    LET heads == {k \in 1..Len(ParsedLines) : Strip(ParsedLines[k]) = heading}
    IN  IF heads = {} THEN 0 ELSE Least(heads)

\* index of the first line after the heading line that starts with "## ",
\* one past the last line when there is none
NextHeadingLine(heading) ==
    LET ends == {k \in (SectionStart(heading) + 1)..Len(ParsedLines) :
                    StartsWith(ParsedLines[k], SectionMarker)}
    IN  IF ends = {} THEN Len(ParsedLines) + 1 ELSE Least(ends)

\* the same, for a line that is not the heading of the section once more
NextOtherHeadingLine(heading) ==
    LET ends == {k \in (SectionStart(heading) + 1)..Len(ParsedLines) :
                    /\ StartsWith(ParsedLines[k], SectionMarker)
                    /\ Strip(ParsedLines[k]) # heading}
    IN  IF ends = {} THEN Len(ParsedLines) + 1 ELSE Least(ends)

\* the lines after the heading line and before line number end
SectionLines(heading, end) ==
    IF SectionStart(heading) = 0 THEN <<>>
    ELSE SubSeq(ParsedLines, SectionStart(heading) + 1, end - 1)

IsCheckboxLine(line) == StartsWith(Strip(line), CheckboxMarker)

\* a checkbox line with its marker stripped and the remainder trimmed
CheckboxText(line) == Strip(DropFirst(Strip(line), Len(CheckboxMarker)))

HasCheckboxText(line) == IsCheckboxLine(line) /\ CheckboxText(line) # <<>>

\* C18 as stated: acceptance_criteria is the list of the checkbox lines
\* between the line "## Acceptance Criteria" and the next line that starts
\* with "## ", each with its marker stripped and the remainder trimmed.
CriteriaAreCheckboxLinesOfSection ==
    tstep = "parsed" =>
        LET rows == SelectSeq(SectionLines(AcceptanceHeading,
                                           NextHeadingLine(AcceptanceHeading)),
                              IsCheckboxLine)
        IN  parsed.acceptance_criteria =
                [i \in 1..Len(rows) |-> CheckboxText(rows[i])]

\* C18, amended: acceptance_criteria is the list of the checkbox lines with a
\* non-empty text after the marker, between the first line "## Acceptance
\* Criteria" and the next line that starts with "## " and is not that heading
\* again, each with its marker stripped and the remainder trimmed.
CriteriaAreNonEmptyCheckboxLinesOfSection ==
    tstep = "parsed" =>
        LET rows == SelectSeq(SectionLines(AcceptanceHeading,
                                           NextOtherHeadingLine(AcceptanceHeading)),
                              HasCheckboxText)
        IN  parsed.acceptance_criteria =
                [i \in 1..Len(rows) |-> CheckboxText(rows[i])]

\* a section with an indented checkbox line and a checkbox line with nothing
\* after the marker was parsed: the one text is the only criterion, trimmed
EmptyCheckboxSkipped ==
    /\ tstep = "parsed"
    /\ md = PieceCriteria \o PieceIndentedCheckbox \o PieceEmptyCheckbox
    /\ Len(parsed.acceptance_criteria) = 1
    /\ Len(parsed.acceptance_criteria[1]) = 7

\* the indexes of line at which a backtick-delimited token opens: a backtick,
\* one character or more that are no backticks, a backtick
TokenStarts(line) ==
    {i \in 1..Len(line) :
        /\ line[i] = Backtick
        /\ \E j \in (i + 2)..Len(line) :
            /\ line[j] = Backtick
            /\ \A m \in (i + 1)..(j - 1) : line[m] # Backtick}

HasToken(line) == TokenStarts(line) # {}

\* the first backtick-delimited token of a line that has one
FirstToken(line) ==
    LET i == Least(TokenStarts(line))
        j == Least({k \in (i + 1)..Len(line) : line[k] = Backtick})
    IN  SubSeq(line, i + 1, j - 1)

\* C19 as stated: files_to_modify holds, for each line between the line
\* "## Files to Modify" and the next line that starts with "## " that has a
\* backtick-delimited token, the first such token of the line.
FilesAreFirstTokensOfSection ==
    tstep = "parsed" =>
        LET rows == SelectSeq(SectionLines(FilesHeading,
                                           NextHeadingLine(FilesHeading)),
                              HasToken)
        IN  parsed.files_to_modify = [i \in 1..Len(rows) |-> FirstToken(rows[i])]

\* C19, amended: files_to_modify holds, for each line with a
\* backtick-delimited token between the first line "## Files to Modify" and
\* the next line that starts with "## " and is not that heading again, the
\* first such token of the line.
FilesAreFirstTokensUntilOtherHeading ==
    tstep = "parsed" =>
        LET rows == SelectSeq(SectionLines(FilesHeading,
                                           NextOtherHeadingLine(FilesHeading)),
                              HasToken)
        IN  parsed.files_to_modify = [i \in 1..Len(rows) |-> FirstToken(rows[i])]

\* a section with a line that has one backtick and no token, and a line with
\* two tokens, was parsed: the first token of the second line is the only file
FirstTokenOfFileLineTaken ==
    /\ tstep = "parsed"
    /\ md = PieceFiles \o PieceOpenTick \o PieceFileLine
    /\ parsed.files_to_modify = << <<"a", ".", "p", "y">> >>

\* the place of candidate k in a stable descending sort: behind the
\* candidates with a greater score and the earlier ones with the same score
PlaceOf(scored, k) ==
    Cardinality({j \in 1..Len(scored) :
                    \/ Greater(scored[j].score, scored[k].score)
                    \/ (j < k /\ ~Greater(scored[k].score, scored[j].score))}) + 1

\* the scored candidates in descending order of score, ties in input order
StableDescending(scored) ==
    [p \in 1..Len(scored) |->
        scored[CHOOSE k \in 1..Len(scored) : PlaceOf(scored, k) = p]]

AboveThreshold(entry) == Greater(entry.score, [num |-> MinScore, den |-> 10])

\* sort, drop the scores of 0.3 or less, truncate to top_k, materialize
SortDropTruncate ==
    LET kept == SelectSeq(StableDescending(Similarities(query, code_embeddings)),
                          AboveThreshold)
        first == SubSeq(kept, 1, Smaller(top_k, Len(kept)))
    IN  [i \in 1..Len(first) |-> CodeChunk(first[i])]

\* C20: for every candidate list and top_k >= 0 the list that
\* search_relevant_code returns (sort, truncate to top_k, drop the scores of
\* 0.3 or less) is the list of the order sort, drop, truncate, the sort being
\* stable and descending by score.
SearchEqualsSortDropTruncate ==
    sstep = "searched" => code_chunks = SortDropTruncate

\* a search whose first top_k entries after the sort held an entry of score
\* 0.3 or less: fewer than top_k chunks are returned, two of them with the
\* same score, in the order of the input
TruncatedListLosesLowEntry ==
    /\ sstep = "searched"
    /\ Len(code_embeddings) >= top_k
    /\ Len(code_chunks) < top_k
    /\ Len(code_chunks) = 2
    /\ code_chunks[1].score = code_chunks[2].score
    /\ code_chunks[1].filename = FileBug
    /\ code_chunks[2].filename = FileLogin

\* how many times term t occurs in the lowercased filename and code of chunk
Occurrences(chunk, t) ==
    LET text == ChunkText(chunk)
    IN  Cardinality({i \in 1..(Len(text) - Len(t) + 1) : MatchAt(text, i, t)})

\* the terms among terms that occur in the text of chunk
MatchedTerms(terms, chunk) ==
    LET text == ChunkText(chunk)
    IN  {t \in terms : \E i \in 1..(Len(text) - Len(t) + 1) : MatchAt(text, i, t)}

\* max(1, number of distinct query terms)
TermDivisor(terms) == IF terms = {} THEN 1 ELSE Cardinality(terms)

\* score = 0.7 * matches / divisor + 0.3 * min(len(text) / 10000, 1), as an
\* equation between integers: both sides times 10 * divisor * 10000
ScoreFollowsFormula(score, terms, chunk) ==
    /\ score.den = 10 * TermDivisor(terms) * LengthCap
    /\ score.num =
          7 * Cardinality(MatchedTerms(terms, chunk)) * LengthCap
          + 3 * TermDivisor(terms)
              * (IF ChunkLength(chunk) < LengthCap THEN ChunkLength(chunk)
                 ELSE LengthCap)

\* the candidates of this call whose text holds one of the terms three times
\* or more, the terms being two
ThriceCandidates(terms) ==
    {k \in 1..Len(code_embeddings) :
        /\ Cardinality(terms) = 2
        /\ \E t \in terms : Occurrences(code_embeddings[k], t) >= 3}

\* C21 as stated: every score follows the formula, and a candidate whose text
\* holds a query term three times, for a query of two terms, has overlap 1.0.
ScoreFormulaAndThriceOverlapOne ==
    sstep = "searched" =>
        LET terms == QueryTerms(LowerText(query))
            scored == Similarities(query, code_embeddings)
        IN  /\ \A k \in 1..Len(code_embeddings) :
                  ScoreFollowsFormula(scored[k].score, terms, code_embeddings[k])
            /\ \A k \in ThriceCandidates(terms) :
                  Cardinality(MatchedTerms(terms, code_embeddings[k]))
                      = TermDivisor(terms)

\* C21, amended: every score follows the formula, a term that occurs several
\* times counting once; for a query of two distinct terms a candidate whose
\* text holds one of them three times has overlap 1.0 when the other term
\* occurs in it too and 0.5 when it does not.
ScoreFormulaCountsDistinctTerms ==
    sstep = "searched" =>
        LET terms == QueryTerms(LowerText(query))
            scored == Similarities(query, code_embeddings)
        IN  /\ \A k \in 1..Len(code_embeddings) :
                  ScoreFollowsFormula(scored[k].score, terms, code_embeddings[k])
            /\ \A k \in ThriceCandidates(terms) :
                  LET matched ==
                          Cardinality(MatchedTerms(terms, code_embeddings[k]))
                  IN  IF MatchedTerms(terms, code_embeddings[k]) = terms
                      THEN matched = 2 ELSE matched = 1

\* the query "fix login" was searched in a candidate that holds "login" three
\* times and "fix" nowhere: the chunk is returned with overlap one half
ThriceCandidateScoredHalf ==
    /\ sstep = "searched"
    /\ query = QueryFixLogin
    /\ Len(code_embeddings) = 1
    /\ ThriceCandidates(QueryTerms(LowerText(query))) = {1}
    /\ Len(code_chunks) = 1
    /\ Cardinality(MatchedTerms(QueryTerms(LowerText(query)), code_chunks[1])) = 1
    /\ code_chunks[1].score.den = 2 * 10 * LengthCap

\* C22: the mode follows from the configuration alone, without a model the
\* lexical ranking is the result; and a failure inside the semantic path is
\* not handled by search_relevant_code, it reaches the caller as a failure:
\* it is not replaced by the lexical ranking nor by any normal result.
SemanticFailureReachesCaller ==
    sstep = "searched" =>
        /\ embedding_model = None =>
              code_chunks = [raises |-> FALSE,
                             value |-> search_relevant_code(query, code_embeddings,
                                                            top_k)]
        /\ (embedding_model # None /\ ~embedding_model.encode_ok) =>
              code_chunks.raises

\* the (language, filename-basename) pair of a chunk
PairOf(chunk) == <<chunk.language, Basename(chunk.filename)>>

\* the place of the first chunk of this pair with score > 0.7 in the input
FirstOccurrence(chunks, pair) ==
    Least({k \in 1..Len(chunks) : HighlyRelevant(chunks[k]) /\ PairOf(chunks[k]) = pair})

\* C23: for every chunk list, the result of _extract_similar_implementations
\* has at most 5 elements, every element has a score above 0.7, no two
\* elements have the same (language, basename) pair, and the elements appear
\* in the order in which their groups first occur in the input.
SimilarAtMostFiveDistinctInGroupOrder ==
    (call # None /\ returned # None) =>
        LET chunks == call.code_chunks
            result == returned.value
        IN  /\ Len(result) <= 5
            /\ \A k \in 1..Len(result) :
                   result[k].score.num * 10 > 7 * result[k].score.den
            /\ \A j, k \in 1..Len(result) :
                   j < k => /\ PairOf(result[j]) # PairOf(result[k])
                            /\ FirstOccurrence(chunks, PairOf(result[j]))
                                   < FirstOccurrence(chunks, PairOf(result[k]))

\* six groups went in, five came out, and a chunk at the threshold was left out
SixGroupsCappedAtFive ==
    /\ call # None
    /\ returned # None
    /\ Len(call.code_chunks) = 6
    /\ Len(returned.value) = 5
    /\ \E k \in 1..6 : call.code_chunks[k].score.num = HighRelevance
    /\ \E k \in 1..6 : call.code_chunks[k].filename = FileLibLogin
    /\ returned.value[5].filename = FileLibLogin

\* the distinct pairs of the chunks with score > 0.7, in order of first occurrence
RECURSIVE PairsInOrder(_, _)
PairsInOrder(chunks, pairs) ==
    IF chunks = <<>> THEN pairs
    ELSE PairsInOrder(Tail(chunks),
             IF \/ ~HighlyRelevant(Head(chunks))
                \/ \E k \in 1..Len(pairs) : pairs[k] = PairOf(Head(chunks))
             THEN pairs ELSE Append(pairs, PairOf(Head(chunks))))

NamesOf(member) == IF member.kind = "object" THEN member.names ELSE <<>>

\* the imported names of all chunks in order of appearance
RECURSIVE ImportsInOrder(_)
ImportsInOrder(chunks) ==
    IF chunks = <<>> THEN <<>>
    ELSE AllImports(Head(chunks).code) \o ImportsInOrder(Tail(chunks))

\* C25: _analyze_dependencies never fails; when the manifest text is a valid
\* object, runtime is the list of the names under dependencies and development
\* the list of the names under devDependencies; when the manifest is absent
\* or malformed both are empty; external holds each imported name once, in
\* first-seen order.
ManifestNamesOrBothEmpty ==
    (call # None /\ returned # None) =>
        LET metadata == call.project_metadata
            result == returned.value
            imports == ImportsInOrder(call.code_chunks)
        IN  /\ IF metadata.has_package_json /\ metadata.package_json.kind = "object"
               THEN /\ result.runtime = NamesOf(metadata.package_json.dependencies)
                    /\ result.development =
                           NamesOf(metadata.package_json.devDependencies)
               ELSE /\ result.runtime = <<>>
                    /\ result.development = <<>>
            /\ \A j, k \in 1..Len(result.external) :
                   result.external[j] = result.external[k] => j = k
            /\ \A k \in 1..Len(imports) :
                   \E j \in 1..Len(result.external) : result.external[j] = imports[k]
            /\ \A j, k \in 1..Len(result.external) :
                   j < k =>
                       Least({i \in 1..Len(imports) : imports[i] = result.external[j]})
                           < Least({i \in 1..Len(imports) : imports[i] = result.external[k]})

\* C26 as stated: when index_repository returns success false with error text
\* e, the error field of the returned envelope equals e.
IndexErrorSurfacedVerbatim ==
    (pc = "FAILED" /\ indexing_result.success = FALSE) =>
        envelope.error = indexing_result.error

\* C26: when index_repository returns success false with error text e, the
\* error field of the returned envelope is "Failed to index repository: "
\* followed by e, and e is its unchanged tail.
IndexErrorSurfacedAfterPrefix ==
    (pc = "FAILED" /\ indexing_result.success = FALSE) =>
        LET e == indexing_result.error
            n == Len(IndexErrorPrefix)
        IN  /\ Len(envelope.error) = n + Len(e)
            /\ SubSeq(envelope.error, 1, n) = IndexErrorPrefix
            /\ SubSeq(envelope.error, n + 1, n + Len(e)) = e
            /\ envelope.error # e

\* a run whose cocoindex initialisation failed has returned
RunFailedAfterInitError ==
    /\ pc = "FAILED"
    /\ indexing_result.success = FALSE
    /\ indexing_result.error = ErrInitFailed
    /\ envelope.error = IndexErrorPrefix \o ErrInitFailed

\* C27: every run eventually reaches DONE or FAILED and produces exactly one
\* envelope, there from the moment the run ends and never replaced; no stage
\* is executed twice and no run stays forever in an intermediate stage.
RunEndsOnceWithOneEnvelope ==
    /\ <>(pc \in {"DONE", "FAILED"})
    /\ (pc \in IntermediateStages) ~> (pc \in {"DONE", "FAILED"})
    /\ [](pc \in {"DONE", "FAILED"} <=> envelope # None)
    /\ [][envelope # None => envelope' = envelope]_vars
    /\ [][(pc = "DONE" \/ pc = "FAILED") => pc' = pc]_vars
    /\ [](\A j, k \in 1..Len(trace) : trace[j] = trace[k] => j = k)
    /\ [][pc' # pc => \A k \in 1..Len(trace') : trace'[k] # pc']_vars

\* a run has gone through six different stages and holds its envelope
RunEndedAfterSixDifferentStages ==
    /\ pc = "DONE"
    /\ Len(trace) = 6
    /\ \A j, k \in 1..6 : trace[j] = trace[k] => j = k
    /\ envelope # None
    /\ response.kind = "content"

\* C28: in lexical mode a candidate whose lowercased filename and code contain
\* none of the query's terms is never returned, however long its text is;
\* a query without any term yields an empty result for every candidate
\* sequence.
CandidateWithoutTermNeverReturned ==
    sstep = "searched" =>
        LET terms == QueryTerms(LowerText(query))
        IN  /\ \A k \in 1..Len(code_chunks) :
                  MatchedTerms(terms, code_chunks[k]) # {}
            /\ terms = {} => code_chunks = <<>>

\* a candidate of the full length bonus that holds no term of the query was
\* searched together with a candidate that holds one, and only the latter
\* is returned
LongCandidateWithoutTermLeftOut ==
    /\ sstep = "searched"
    /\ Len(code_embeddings) = 2
    /\ top_k >= 2
    /\ LET terms == QueryTerms(LowerText(query))
       IN  /\ terms # {}
           /\ MatchedTerms(terms, code_embeddings[1]) = {}
           /\ ChunkLength(code_embeddings[1]) >= LengthCap
           /\ MatchedTerms(terms, code_embeddings[2]) # {}
    /\ Len(code_chunks) = 1
    /\ code_chunks[1].filename = code_embeddings[2].filename

\* the text of the checkbox item of PieceCheckbox
ItemAddTests == <<"A", "d", "d", " ", "t", "e", "s", "t", "s">>

\* the raw text ends with an example section that is directly followed by
\* the acceptance criteria section with n checkbox items, and has no
\* acceptance criteria heading before
EndsWithExampleThenCriteria(n) ==
    /\ FirstExampleHeading # 0
    /\ ~Contains(SubSeq(md, 1, FirstExampleHeading - 1), AcceptanceHeading)
    /\ DropFirst(md, FirstExampleHeading - 1) =
           PieceExample \o PieceCriteria
               \o (IF n = 2 THEN PieceCheckbox \o PieceCheckbox ELSE PieceCheckbox)

\* C29: sanitizing then parsing keeps the sections that follow a removed one:
\* when the raw output has a "## Example Code Snippet" section directly
\* followed by a "## Acceptance Criteria" section with checkbox items, the
\* ticket parsed from the sanitized text has exactly those items in
\* acceptance_criteria.
CriteriaAfterExampleSectionKept ==
    tstep = "parsed_cleaned" =>
        /\ EndsWithExampleThenCriteria(1) => parsed.acceptance_criteria = <<ItemAddTests>>
        /\ EndsWithExampleThenCriteria(2) =>
               parsed.acceptance_criteria = <<ItemAddTests, ItemAddTests>>

\* C30: for every chunk list the naming tally built by
\* _analyze_coding_conventions only has the keys snake_case and camelCase:
\* every captured identifier starts with a lowercase letter or an underscore,
\* PascalCase is never counted and never the style named in the prompt.
NamingTallyNeverHasPascalCase ==
    (call # None /\ call.method = "_analyze_coding_conventions" /\ returned # None) =>
        /\ \A k \in 1..Len(returned.value.naming) :
               returned.value.naming[k].key \in {NameSnakeCase, NameCamelCase}
        /\ \A k \in 1..Len(call.code_chunks) :
               \A j \in 1..Len(CodeMatches(call.code_chunks[k].code)) :
                   LET first == CodeMatches(call.code_chunks[k].code)[j][1]
                   IN  IsLower(first) \/ first = "_"
        /\ "context" \in DOMAIN returned =>
               ~Contains(returned.context, NamePascalCase)

\* code that declares GetUser, Render and App next to get_user has been
\* tallied and the prompt names snake_case
PascalDeclarationsNotCounted ==
    /\ call # None
    /\ call.method = "_analyze_coding_conventions"
    /\ Len(call.code_chunks) = 2
    /\ call.code_chunks[1].code = CodeDefPascal
    /\ call.code_chunks[2].code = CodeDefSnake
    /\ returned # None
    /\ returned.value.naming = <<[key |-> NameSnakeCase, count |-> 1]>>
    /\ "context" \in DOMAIN returned
    /\ returned.context = ConventionsHeader \o NamingLabel \o NameSnakeCase \o <<"\n">>

====
